---- MODULE Spec2Model ----
(***************************************************************************)
(* Model of the disaster record merger (DisasterMerger) of the SIO-25      *)
(* globe application: duplicate detection across sources, representative   *)
(* selection, statistics, validation and the date sort.                    *)
(*                                                                         *)
(* Units.  Numbers of the TypeScript code are doubles; the model keeps     *)
(* them as integers in fixed units:                                        *)
(*   latitude, longitude : hundredths of a degree (9000 = 90 degrees)      *)
(*   distances           : centimetres (100000 per kilometre)              *)
(*   dates               : tenths of an hour relative to the processing    *)
(*                         time `now` (Date.getTime() / 360000 - now)      *)
(*   NaN                 : one integer outside every range, also standing  *)
(*                         for an `undefined` number                       *)
(* Strings are kept as strings where the code only compares them or tests  *)
(* their truthiness (id, name, type, source, urls); the summary, whose     *)
(* length the code reads, is kept as [length, trimmed].                    *)
(***************************************************************************)
EXTENDS Integers, Sequences, FiniteSets, TLC

VARIABLES
    emdatDisasters,   \* mergeSources argument 1
    eonetDisasters,   \* mergeSources argument 2
    usgsDisasters,    \* mergeSources argument 3
    cleanEmdat,       \* mergeSources local
    cleanEonet,       \* mergeSources local
    cleanUsgs,        \* mergeSources local
    allDisasters,     \* mergeDisasters local: the flattened input
    stats,            \* mergeDisasters local: MergerStats
    uniqueDisasters,  \* mergeDisasters local: the output list
    processed,        \* mergeDisasters local: Set<string> of ids
    i,                \* mergeDisasters outer loop index (1-based)
    clusters,         \* the duplicateIndices of every outer iteration, in order
    pc,               \* position in mergeSources
    disaster1,        \* first argument of a direct call of a pair function
    disaster2,        \* second argument of a direct call of a pair function
    ret,              \* what the direct call returned
    response,         \* per source, what the network delivers to its fetcher
    fetchState,       \* per source, "idle", "pending" or how the promise settled
    order             \* the sources in the order their fetches settled

vars == <<emdatDisasters, eonetDisasters, usgsDisasters, cleanEmdat, cleanEonet,
          cleanUsgs, allDisasters, stats, uniqueDisasters, processed, i, clusters,
          pc, disaster1, disaster2, ret, response, fetchState, order>>

mergeVars == <<emdatDisasters, eonetDisasters, usgsDisasters, cleanEmdat, cleanEonet,
               cleanUsgs, allDisasters, stats, uniqueDisasters, processed, i,
               clusters>>

pairVars == <<disaster1, disaster2, ret>>

fetchVars == <<response, fetchState, order>>

----------------------------------------------------------------------------
(* Numbers and strings of JavaScript                                       *)

NaN == -999999

isNaN(x) == x = NaN

Abs(x) == IF x < 0 THEN -x ELSE x

Min(a, b) == IF a <= b THEN a ELSE b

\* `undefined` for the optional string field `source`
Undefined == "<undefined>"

\* !s for a string-or-undefined value
FalsyString(s) == s = Undefined \/ s = ""

\* !x for a number-or-undefined value: undefined, NaN and 0 are falsy
FalsyNumber(x) == isNaN(x) \/ x = 0

\* String.prototype.trim on the strings of the model: the all-blank ones become ""
trim(s) == IF s \in {" ", "   "} THEN "" ELSE s

\* kilometres and hours in the model's units
Km(k) == k * 100000

Hours(h) == h * 10

----------------------------------------------------------------------------
(* DisasterMerger: the pair functions                                      *)

\* Haversine distance on a sphere of radius 6371 km.  For two points on one
\* meridian (dLon = 0) a = sin^2(dLat/2) and the distance is R * |dLat|; for
\* two points on the equator it is R * (the shorter arc of |dLon|).  One
\* hundredth of a degree of arc is 6371 * pi / 180 / 100 km = 111195 cm.
\* The model places records on one meridian or on the equator; a NaN
\* coordinate makes the distance NaN.
calculateDistance(lat1, lon1, lat2, lon2) ==
    IF isNaN(lat1) \/ isNaN(lon1) \/ isNaN(lat2) \/ isNaN(lon2) THEN NaN
    ELSE CASE lon1 = lon2 -> Abs(lat2 - lat1) * 111195
           [] lat1 = 0 /\ lat2 = 0 ->
                 LET d == Abs(lon2 - lon1) % 36000
                 IN  Min(d, 36000 - d) * 111195

\* |date2 - date1| in hours (here: tenths of an hour); NaN for an invalid Date
calculateTimeDifference(date1, date2) ==
    IF isNaN(date1) \/ isNaN(date2) THEN NaN ELSE Abs(date2 - date1)

\* the switch of areDuplicates: radius in km
maxDistance(type) ==
    CASE type = "earthquake" -> 50
      [] type = "volcano" -> 20
      [] type = "wildfire" -> 100
      [] type \in {"hurricane", "storm"} -> 200
      [] type = "flood" -> 100
      [] OTHER -> 50

\* the switch of areDuplicates: window in hours
maxTimeDiff(type) ==
    CASE type = "earthquake" -> 24
      [] type = "volcano" -> 168
      [] type = "wildfire" -> 72
      [] type \in {"hurricane", "storm"} -> 48
      [] type = "flood" -> 72
      [] OTHER -> 48

\* a comparison with NaN is false
LessEq(x, y) == ~isNaN(x) /\ ~isNaN(y) /\ x <= y

\* the two thresholds taken as exclusive bounds
areDuplicatesExclusive(d1, d2) ==
    IF d1.source = d2.source THEN FALSE
    ELSE IF d1.type # d2.type THEN FALSE
    ELSE LET distance == calculateDistance(d1.latitude, d1.longitude,
                                           d2.latitude, d2.longitude)
             timeDiff == calculateTimeDifference(d1.date, d2.date)
         IN  /\ LessEq(distance, Km(maxDistance(d1.type)) - 1)
             /\ LessEq(timeDiff, Hours(maxTimeDiff(d1.type)) - 1)

areDuplicates(d1, d2) ==
    IF d1.source = d2.source THEN FALSE
    ELSE IF d1.type # d2.type THEN FALSE
    ELSE LET distance == calculateDistance(d1.latitude, d1.longitude,
                                           d2.latitude, d2.longitude)
             timeDiff == calculateTimeDifference(d1.date, d2.date)
         IN  /\ LessEq(distance, Km(maxDistance(d1.type)))
             /\ LessEq(timeDiff, Hours(maxTimeDiff(d1.type)))

\* sourcePriority[source || ''] || 0
sourcePriority(source) ==
    CASE source = "USGS" -> 3
      [] source = "NASA EONET" -> 2
      [] source = "EM-DAT" -> 1
      [] OTHER -> 0

calculateInformationScore(d) ==
      (IF ~FalsyString(d.name) /\ ~FalsyString(trim(d.name)) THEN 1 ELSE 0)
    + (IF d.summary.length > 0 /\ d.summary.trimmed > 0 THEN 2 ELSE 0)
    + (IF ~isNaN(d.affectedPeople) /\ d.affectedPeople > 0 THEN 1 ELSE 0)
    + (IF ~FalsyNumber(d.magnitude) THEN 1 ELSE 0)
    + (IF ~FalsyString(d.sourceUrl) THEN 1 ELSE 0)
    + (IF ~FalsyString(d.imageUrl) THEN 1 ELSE 0)
    + (IF Len(d.donationLinks) > 0 THEN 2 ELSE 0)
    + (IF d.summary.length > 50 THEN 1 ELSE 0)
    + (IF d.summary.length > 100 THEN 1 ELSE 0)

\* the information score consulted before the source priority
chooseRicherRecord(d1, d2) ==
    LET score1 == calculateInformationScore(d1)
        score2 == calculateInformationScore(d2)
    IN  IF score1 = score2
        THEN IF sourcePriority(d1.source) >= sourcePriority(d2.source) THEN d1 ELSE d2
        ELSE IF score1 > score2 THEN d1 ELSE d2

\* a tie of scores resolved for the record compared later
chooseLaterOnTie(d1, d2) ==
    LET priority1 == sourcePriority(d1.source)
        priority2 == sourcePriority(d2.source)
    IN  IF priority1 = priority2
        THEN IF calculateInformationScore(d1) > calculateInformationScore(d2)
             THEN d1 ELSE d2
        ELSE IF priority1 > priority2 THEN d1 ELSE d2

\* the better record returned under the identifier of the first
chooseAndKeepId(d1, d2) ==
    LET priority1 == sourcePriority(d1.source)
        priority2 == sourcePriority(d2.source)
        better == IF priority1 = priority2
                  THEN IF calculateInformationScore(d1) >= calculateInformationScore(d2)
                       THEN d1 ELSE d2
                  ELSE IF priority1 > priority2 THEN d1 ELSE d2
    IN  [better EXCEPT !.id = d1.id]

chooseBetterRecord(d1, d2) ==
    LET priority1 == sourcePriority(d1.source)
        priority2 == sourcePriority(d2.source)
    IN  IF priority1 = priority2
        THEN IF calculateInformationScore(d1) >= calculateInformationScore(d2)
             THEN d1 ELSE d2
        ELSE IF priority1 > priority2 THEN d1 ELSE d2

----------------------------------------------------------------------------
(* DisasterMerger: validation                                              *)

\* new Date() of validateDisaster: dates are measured from the processing time
now == 0

\* the three limits taken as exclusive bounds
validateDisasterExclusive(d) ==
    IF FalsyString(d.id) \/ FalsyString(d.name) \/ FalsyString(d.type) THEN FALSE
    ELSE IF isNaN(d.latitude) \/ isNaN(d.longitude) THEN FALSE
    ELSE IF Abs(d.latitude) >= 9000 \/ Abs(d.longitude) >= 18000 THEN FALSE
    ELSE IF isNaN(d.date) THEN FALSE
    ELSE LET oneWeekFromNow == now + Hours(7 * 24)
         IN  IF d.date >= oneWeekFromNow THEN FALSE ELSE TRUE

validateDisaster(d) ==
    IF FalsyString(d.id) \/ FalsyString(d.name) \/ FalsyString(d.type) THEN FALSE
    ELSE IF isNaN(d.latitude) \/ isNaN(d.longitude) THEN FALSE
    ELSE IF Abs(d.latitude) > 9000 \/ Abs(d.longitude) > 18000 THEN FALSE
    ELSE IF isNaN(d.date) THEN FALSE
    ELSE LET oneWeekFromNow == now + Hours(7 * 24)
         IN  IF d.date > oneWeekFromNow THEN FALSE ELSE TRUE

\* no record is filtered out
keepAll(disasters) == disasters

\* Array.prototype.filter
cleanDisasters(disasters) == SelectSeq(disasters, validateDisaster)

----------------------------------------------------------------------------
(* DisasterMerger.mergeDisasters                                           *)

\* a flatten that stops at the first empty array
flatUntilEmpty(a, b, c) ==
    IF a = <<>> THEN <<>> ELSE IF b = <<>> THEN a ELSE a \o b \o c

\* disasterArrays.flat() for the three arrays mergeSources passes
flat(a, b, c) == a \o b \o c

\* obj[key] = 1: the count so far is forgotten
SetToOne(obj, key) ==
    [k \in DOMAIN obj \cup {key} |-> IF k = key THEN 1 ELSE obj[k]]

\* obj[key] = (obj[key] || 0) + 1
Increment(obj, key) ==
    IF key \in DOMAIN obj
    THEN [obj EXCEPT ![key] = @ + 1]
    ELSE [k \in DOMAIN obj \cup {key} |-> IF k = key THEN 1 ELSE obj[k]]

EmptyObject == [k \in {} |-> 0]

RECURSIVE trackStatistics(_, _, _)
\* the forEach over allDisasters, from element k on
trackStatistics(all, k, st) ==
    IF k > Len(all) THEN st
    ELSE LET source == IF FalsyString(all[k].source) THEN "Unknown" ELSE all[k].source
             type == all[k].type
         IN  trackStatistics(all, k + 1,
                 [st EXCEPT !.sourceBreakdown = Increment(@, source),
                            !.typeBreakdown = Increment(@, type)])

initialStats(all) ==
    trackStatistics(all, 1,
        [totalEvents |-> Len(all), duplicatesRemoved |-> 0,
         sourceBreakdown |-> EmptyObject, typeBreakdown |-> EmptyObject])

RECURSIVE lookForDuplicates(_, _, _, _, _, _)
\* the inner loop over j for the anchor currentDisaster: the running best
\* record and the duplicateIndices
lookForDuplicates(all, done, currentDisaster, j, bestDisaster, duplicateIndices) ==
    IF j > Len(all)
    THEN [bestDisaster |-> bestDisaster, duplicateIndices |-> duplicateIndices]
    ELSE IF all[j].id \in done
    THEN lookForDuplicates(all, done, currentDisaster, j + 1, bestDisaster,
                           duplicateIndices)
    ELSE IF areDuplicates(currentDisaster, all[j])
    THEN lookForDuplicates(all, done, currentDisaster, j + 1,
                           chooseBetterRecord(bestDisaster, all[j]),
                           Append(duplicateIndices, j))
    ELSE lookForDuplicates(all, done, currentDisaster, j + 1, bestDisaster,
                           duplicateIndices)

\* the comparator with its operands exchanged: oldest first
compareByDateAscending(a, b) == a.date - b.date

\* comparator of the final sort: (a, b) => b.date.getTime() - a.date.getTime()
compareByDate(a, b) == b.date - a.date

RECURSIVE insertSorted(_, _)
\* x, which followed every element of the sorted list in the array, goes
\* behind every element the comparator does not put after it (stable sort)
insertSorted(sorted, x) ==
    IF sorted = <<>> THEN <<x>>
    ELSE LET last == sorted[Len(sorted)]
         IN  IF compareByDate(last, x) <= 0
             THEN Append(sorted, x)
             ELSE Append(insertSorted(SubSeq(sorted, 1, Len(sorted) - 1), x), last)

RECURSIVE sortPrefix(_, _)
sortPrefix(list, n) ==
    IF n = 0 THEN <<>> ELSE insertSorted(sortPrefix(list, n - 1), list[n])

\* Array.prototype.sort with compareByDate
sortByDate(list) == sortPrefix(list, Len(list))

\* one iteration of the outer loop (lines 167-198) on the loop's state
\* [i, processed, uniqueDisasters, duplicatesRemoved, clusters]
outerIteration(all, st) ==
    IF all[st.i].id \in st.processed
    THEN [st EXCEPT !.i = @ + 1]
    ELSE LET found == lookForDuplicates(all, st.processed, all[st.i], st.i + 1,
                                        all[st.i], <<st.i>>)
             duplicateIndices == found.duplicateIndices
         IN  [i |-> st.i + 1,
              processed |-> st.processed \cup
                  { all[duplicateIndices[k]].id : k \in DOMAIN duplicateIndices },
              uniqueDisasters |-> Append(st.uniqueDisasters, found.bestDisaster),
              duplicatesRemoved |->
                  IF Len(duplicateIndices) > 1
                  THEN st.duplicatesRemoved + Len(duplicateIndices) - 1
                  ELSE st.duplicatesRemoved,
              clusters |-> Append(st.clusters, found)]

RECURSIVE outerLoop(_, _)
outerLoop(all, st) ==
    IF st.i > Len(all) THEN st ELSE outerLoop(all, outerIteration(all, st))

\* mergeDisasters as a function of the flattened input: what it returns
mergeDisasters(all) ==
    LET end == outerLoop(all, [i |-> 1, processed |-> {}, uniqueDisasters |-> <<>>,
                               duplicatesRemoved |-> 0, clusters |-> <<>>])
    IN  [disasters |-> sortByDate(end.uniqueDisasters),
         stats |-> [initialStats(all) EXCEPT
                        !.duplicatesRemoved = end.duplicatesRemoved]]

----------------------------------------------------------------------------
(* Strings of JavaScript as the normalizers use them                       *)

UpperCase == "ABCDEFGHIJKLMNOPQRSTUVWXYZ"

LowerCase == "abcdefghijklmnopqrstuvwxyz"

RECURSIVE toLowerCase(_)
\* String.prototype.toLowerCase on the letters A-Z
toLowerCase(s) ==
    IF s = "" THEN ""
    ELSE LET c == SubSeq(s, 1, 1)
             up == { p \in 1..Len(UpperCase) : SubSeq(UpperCase, p, p) = c }
         IN  (IF up = {} THEN c
              ELSE LET p == CHOOSE q \in up : TRUE IN SubSeq(LowerCase, p, p))
             \o toLowerCase(SubSeq(s, 2, Len(s)))

\* String.prototype.includes
includes(s, k) ==
    \E p \in 1..(Len(s) - Len(k) + 1) : SubSeq(s, p, p + Len(k) - 1) = k

\* ${x} in a template literal, for a string-or-undefined value
Text(x) == IF x = Undefined THEN "undefined" ELSE x

RECURSIVE join(_, _)
\* Array.prototype.join
join(parts, sep) ==
    IF parts = <<>> THEN ""
    ELSE IF Len(parts) = 1 THEN parts[1]
    ELSE parts[1] \o sep \o join(Tail(parts), sep)

\* the summary field of the model for a text: its length and its length
\* after trim()
SummaryOf(text) == [length |-> Len(text), trimmed |-> Len(trim(text))]

\* x || 0 for a number-or-undefined value
OrZero(x) == IF FalsyNumber(x) THEN 0 ELSE x

\* x > y, false when one of them is NaN
Greater(x, y) == ~isNaN(x) /\ ~isNaN(y) /\ x > y

----------------------------------------------------------------------------
(* EmdatService                                                            *)
(* A row is a record of the columns the code reads; an empty cell is       *)
(* Undefined (text) or NaN (number).                                       *)

\* the storm keywords checked before the hurricane keywords
mapDisasterTypeStormFirst(emdatType) ==
    IF FalsyString(emdatType) THEN "other"
    ELSE LET type == toLowerCase(emdatType)
         IN  IF includes(type, "flood") THEN "flood"
             ELSE IF includes(type, "wildfire") \/ includes(type, "forest fire")
             THEN "wildfire"
             ELSE IF includes(type, "storm") \/ includes(type, "wind") THEN "storm"
             ELSE IF includes(type, "hurricane") \/ includes(type, "cyclone")
                     \/ includes(type, "typhoon")
             THEN "hurricane"
             ELSE IF includes(type, "drought") THEN "drought"
             ELSE IF includes(type, "heat") \/ includes(type, "temperature")
             THEN "heatwave"
             ELSE IF includes(type, "earthquake") \/ includes(type, "seismic")
             THEN "earthquake"
             ELSE "other"

mapDisasterType(emdatType) ==
    IF FalsyString(emdatType) THEN "other"
    ELSE LET type == toLowerCase(emdatType)
         IN  IF includes(type, "flood") THEN "flood"
             ELSE IF includes(type, "wildfire") \/ includes(type, "forest fire")
             THEN "wildfire"
             ELSE IF includes(type, "hurricane") \/ includes(type, "cyclone")
                     \/ includes(type, "typhoon")
             THEN "hurricane"
             ELSE IF includes(type, "drought") THEN "drought"
             ELSE IF includes(type, "heat") \/ includes(type, "temperature")
             THEN "heatwave"
             ELSE IF includes(type, "storm") \/ includes(type, "wind") THEN "storm"
             ELSE IF includes(type, "earthquake") \/ includes(type, "seismic")
             THEN "earthquake"
             ELSE "other"

\* deaths counted once, not ten times
EmdatSeverityUnweighted(affected, deaths) ==
    LET totalAffected == OrZero(affected) + OrZero(deaths)
    IN  IF totalAffected >= 1000000 THEN "critical"
        ELSE IF totalAffected >= 100000 THEN "high"
        ELSE IF totalAffected >= 10000 THEN "moderate"
        ELSE "low"

EmdatCalculateSeverity(affected, deaths) ==
    LET totalAffected == OrZero(affected) + OrZero(deaths) * 10
    IN  IF totalAffected >= 1000000 THEN "critical"
        ELSE IF totalAffected >= 100000 THEN "high"
        ELSE IF totalAffected >= 10000 THEN "moderate"
        ELSE "low"

\* the calendar year of the processing time, which is taken to be the first
\* hour of 1 January
NowYear == 2026

\* new Date(year, month - 1, day) in the model's time: a year of 8760 hours
\* in twelve months of 730 hours, days of 24 hours
createDate(year, month, day) ==
    IF FalsyNumber(year) THEN now
    ELSE (year - NowYear) * Hours(8760)
         + ((IF FalsyNumber(month) THEN 1 ELSE month) - 1) * Hours(730)
         + ((IF FalsyNumber(day) THEN 1 ELSE day) - 1) * Hours(24)

\* toLocaleString() of a count is written without grouping separators
EmdatGenerateSummary(row) ==
    LET p1 == IF ~FalsyString(row.DisasterType)
              THEN <<row.DisasterType \o " disaster">> ELSE <<>>
        p2 == IF ~FalsyString(row.Location) THEN <<"in " \o row.Location>>
              ELSE IF ~FalsyString(row.Country) THEN <<"in " \o row.Country>>
              ELSE <<>>
        p3 == IF ~FalsyNumber(row.TotalAffected)
              THEN <<"affecting " \o ToString(row.TotalAffected) \o " people">>
              ELSE <<>>
        p4 == IF ~FalsyNumber(row.TotalDeaths)
              THEN <<"with " \o ToString(row.TotalDeaths) \o " casualties">>
              ELSE <<>>
        parts == p1 \o p2 \o p3 \o p4
    IN  IF Len(parts) > 0 THEN join(parts, " ") \o "." ELSE "Natural disaster event."

\* the reported total taken as it is
keepReported(x) == x

\* row['Total Affected'] || 0
reportedOrZero(x) == OrZero(x)

RECURSIVE processRows(_, _, _)
\* data.forEach((row, index) => ...) from the 0-based index on
processRows(data, index, disasters) ==
    IF index >= Len(data) THEN disasters
    ELSE LET row == data[index + 1]
         IN  IF FalsyNumber(row.Latitude) \/ FalsyNumber(row.Longitude)
             THEN processRows(data, index + 1, disasters)
             ELSE processRows(data, index + 1, Append(disasters,
                    [id |-> IF ~FalsyString(row.DisNo) THEN row.DisNo
                            ELSE "emdat-" \o ToString(index),
                     name |-> IF ~FalsyString(row.EventName) THEN row.EventName
                              ELSE Text(row.DisasterType) \o " in " \o Text(row.Country),
                     type |-> mapDisasterType(row.DisasterType),
                     latitude |-> row.Latitude,
                     longitude |-> row.Longitude,
                     date |-> createDate(row.StartYear, row.StartMonth, row.StartDay),
                     severity |-> EmdatCalculateSeverity(row.TotalAffected,
                                                        row.TotalDeaths),
                     affectedPeople |-> reportedOrZero(row.TotalAffected),
                     summary |-> SummaryOf(EmdatGenerateSummary(row)),
                     donationLinks |-> <<>>,
                     source |-> "EM-DAT",
                     sourceUrl |-> Undefined,
                     imageUrl |-> Undefined,
                     magnitude |-> NaN]))

processEmdatData(data) == processRows(data, 0, <<>>)

----------------------------------------------------------------------------
(* USGSService                                                             *)
(* A feature is [id, coordinates, properties]; coordinates is the array    *)
(* [longitude, latitude, depth], << >> when the geometry is missing.       *)
(* Magnitudes and depths are in tenths; properties.time is in the model's  *)
(* time, NaN when absent.                                                  *)

\* magnitude 6 rated moderate: high from magnitude 7 on
UsgsSeverityHighFromSeven(magnitude) ==
    IF magnitude >= 80 THEN "critical"
    ELSE IF magnitude >= 70 THEN "high"
    ELSE IF magnitude >= 50 THEN "moderate"
    ELSE "low"

UsgsCalculateSeverity(magnitude) ==
    IF magnitude >= 80 THEN "critical"
    ELSE IF magnitude >= 70 THEN "high"
    ELSE IF magnitude >= 60 THEN "high"
    ELSE IF magnitude >= 55 THEN "moderate"
    ELSE IF magnitude >= 50 THEN "moderate"
    ELSE "low"

getAffectedPeople == 0

\* the text of a number of tenths, one decimal
Decimal(x) == ToString(x \div 10) \o "." \o ToString(x % 10)

\* toLocaleDateString(): a stand-in of the usual length, the locale is not
\* modelled
LocaleDate(date) == IF isNaN(date) THEN "Invalid Date" ELSE "1/1/2026"

\* the time value 0 (1 January 1970) in the model's time
Epoch == now - (NowYear - 1970) * Hours(8760)

\* !time for a time value: undefined, NaN and 0 are falsy
FalsyTime(t) == isNaN(t) \/ t = Epoch

AlertColors ==
    [green |-> "Low impact expected", yellow |-> "Moderate impact expected",
     orange |-> "Significant impact expected", red |-> "Extreme impact expected"]

UsgsGenerateSummary(feature) ==
    LET props == feature.properties
        depth == feature.coordinates[3]
        parts ==
            <<"Magnitude " \o Decimal(props.mag) \o " earthquake">>
            \o (IF ~FalsyString(props.place) THEN <<props.place>> ELSE <<>>)
            \o <<"on " \o LocaleDate(props.time)>>
            \o <<"at " \o Decimal(depth) \o " km depth">>
            \o (IF props.tsunami = 1 THEN <<"(Tsunami warning issued)">> ELSE <<>>)
            \o (IF ~FalsyString(props.alert) /\ props.alert \in DOMAIN AlertColors
                THEN <<"Alert: " \o AlertColors[props.alert]>> ELSE <<>>)
            \o (IF ~FalsyNumber(props.felt) /\ props.felt > 0
                THEN <<"Felt by " \o ToString(props.felt) \o " people">> ELSE <<>>)
    IN  join(parts, " ") \o "."

isValidEarthquake(feature) ==
    IF Len(feature.coordinates) < 3 THEN FALSE
    ELSE LET lon == feature.coordinates[1]
             lat == feature.coordinates[2]
             depth == feature.coordinates[3]
         IN  IF isNaN(lat) \/ isNaN(lon) \/ isNaN(depth) THEN FALSE
             ELSE IF Abs(lat) > 9000 \/ Abs(lon) > 18000 THEN FALSE
             ELSE IF FalsyNumber(feature.properties.mag) THEN FALSE
             ELSE IF FalsyTime(feature.properties.time) THEN FALSE
             ELSE IF FalsyString(feature.properties.place)
                     /\ FalsyString(feature.properties.title) THEN FALSE
             ELSE TRUE

\* null is << >>, a record d is <<d>>
UsgsConvertToDisasterLocation(feature) ==
    IF ~isValidEarthquake(feature) THEN <<>>
    ELSE LET longitude == feature.coordinates[1]
             latitude == feature.coordinates[2]
             props == feature.properties
             date == props.time
         IN  << [id |-> "usgs-" \o feature.id,
                 name |-> IF ~FalsyString(props.title) THEN props.title
                          ELSE IF ~FalsyString(props.place) THEN props.place
                          ELSE "M" \o Decimal(props.mag) \o " Earthquake",
                 type |-> "earthquake",
                 latitude |-> latitude,
                 longitude |-> longitude,
                 date |-> date,
                 severity |-> UsgsCalculateSeverity(props.mag),
                 affectedPeople |-> getAffectedPeople,
                 summary |-> SummaryOf(UsgsGenerateSummary(feature)),
                 donationLinks |-> <<>>,
                 source |-> "USGS",
                 sourceUrl |-> props.url,
                 imageUrl |-> Undefined,
                 magnitude |-> props.mag] >>

RECURSIVE convertFeatures(_)
\* the loop of fetchRecentEarthquakes over data.features
convertFeatures(features) ==
    IF features = <<>> THEN <<>>
    ELSE UsgsConvertToDisasterLocation(Head(features)) \o convertFeatures(Tail(features))

----------------------------------------------------------------------------
(* EONETService                                                            *)
(* An event is [id, title, description, link, closed, categories, sources, *)
(* geometry].  A geometry entry is [magnitudeValue, magnitudeUnit, date,   *)
(* type, coordinates]; coordinates is a list of positions <<lon, lat>>:    *)
(* one for a Point (none when the array is too short), the listed ones for *)
(* a Polygon.  Dates of the feed are texts.                                *)

\* new Date(text).getTime() for the date texts of the model; any other
\* text, and undefined, give an invalid date
DateValue(text) ==
    CASE text = "2026-01-01T00:00:00Z" -> now
      [] text = "2025-12-31T14:00:00Z" -> now - Hours(10)
      [] text = "2025-12-24T00:00:00Z" -> now - Hours(8 * 24)
      [] text = "2025-12-02T00:00:00Z" -> now - Hours(30 * 24)
      [] text = "2025-09-23T00:00:00Z" -> now - Hours(100 * 24)
      [] text = "2026-01-09T08:00:00Z" -> now + Hours(200)
      [] text = "2025-12-25T00:00:00Z" -> now - Hours(7 * 24)
      [] text = "2025-12-18T00:00:00Z" -> now - Hours(14 * 24)
      [] text = "2025-12-17T00:00:00Z" -> now - Hours(15 * 24)
      [] text = "2025-12-11T00:00:00Z" -> now - Hours(21 * 24)
      [] text = "2025-12-10T00:00:00Z" -> now - Hours(22 * 24)
      [] text = "2025-12-01T00:00:00Z" -> now - Hours(31 * 24)
      [] text = "2025-11-02T00:00:00Z" -> now - Hours(60 * 24)
      [] text = "2025-11-01T00:00:00Z" -> now - Hours(61 * 24)
      [] text = "2025-10-03T00:00:00Z" -> now - Hours(90 * 24)
      [] text = "2025-10-02T00:00:00Z" -> now - Hours(91 * 24)
      [] text = "2025-09-03T00:00:00Z" -> now - Hours(120 * 24)
      [] text = "2025-09-02T00:00:00Z" -> now - Hours(121 * 24)
      [] OTHER -> NaN

mapCategoryToType(categories) ==
    IF Len(categories) = 0 THEN "other"
    ELSE LET category == toLowerCase(categories[1].title)
         IN  IF includes(category, "wildfire") \/ includes(category, "fire")
             THEN "wildfire"
             ELSE IF includes(category, "flood") THEN "flood"
             ELSE IF includes(category, "storm") \/ includes(category, "cyclone")
                     \/ includes(category, "hurricane") \/ includes(category, "typhoon")
             THEN "hurricane"
             ELSE IF includes(category, "drought") THEN "drought"
             ELSE IF includes(category, "heat") \/ includes(category, "temperature")
             THEN "heatwave"
             ELSE IF includes(category, "earthquake") \/ includes(category, "seismic")
             THEN "earthquake"
             ELSE IF includes(category, "volcano") THEN "volcano"
             ELSE IF includes(category, "snow") \/ includes(category, "ice")
             THEN "storm"
             ELSE "other"

\* days in the model's time
Days(n) == Hours(n * 24)

\* event.geometry[0]?.date
FirstDate(event) == IF Len(event.geometry) = 0 THEN Undefined ELSE event.geometry[1].date

\* every category rated by the thresholds of the volcano branch
EonetSeverityByDurationOnly(event) ==
    LET startDate == DateValue(FirstDate(event))
        endDate == IF ~FalsyString(event.closed) THEN DateValue(event.closed) ELSE now
        duration == IF isNaN(startDate) \/ isNaN(endDate) THEN NaN
                    ELSE endDate - startDate
    IN  IF Greater(duration, Days(60)) THEN "high"
        ELSE IF Greater(duration, Days(14)) THEN "moderate"
        ELSE "low"

EonetCalculateSeverity(event) ==
    LET startDate == DateValue(FirstDate(event))
        endDate == IF ~FalsyString(event.closed) THEN DateValue(event.closed) ELSE now
        duration == IF isNaN(startDate) \/ isNaN(endDate) THEN NaN
                    ELSE endDate - startDate
        type == mapCategoryToType(event.categories)
    IN  IF type = "volcano"
        THEN IF Greater(duration, Days(60)) THEN "high"
             ELSE IF Greater(duration, Days(14)) THEN "moderate"
             ELSE "low"
        ELSE IF type = "earthquake" THEN "moderate"
        ELSE IF type = "wildfire"
        THEN IF Greater(duration, Days(90)) THEN "high"
             ELSE IF Greater(duration, Days(30)) THEN "moderate"
             ELSE IF Greater(duration, Days(7)) THEN "moderate"
             ELSE "low"
        ELSE IF type \in {"storm", "hurricane", "flood"}
        THEN IF Greater(duration, Days(21)) THEN "high"
             ELSE IF Greater(duration, Days(7)) THEN "moderate"
             ELSE "moderate"
        ELSE IF type \in {"drought", "heatwave"}
        THEN IF Greater(duration, Days(120)) THEN "high"
             ELSE IF Greater(duration, Days(60)) THEN "moderate"
             ELSE "moderate"
        ELSE IF Greater(duration, Days(120)) THEN "high"
        ELSE IF Greater(duration, Days(30)) THEN "moderate"
        ELSE "low"

RECURSIVE joinIds(_)
\* event.sources.map(s => s.id).join(', ')
joinIds(sources) ==
    IF sources = <<>> THEN ""
    ELSE IF Len(sources) = 1 THEN sources[1].id
    ELSE sources[1].id \o ", " \o joinIds(Tail(sources))

EonetGenerateSummary(event) ==
    LET category == IF Len(event.categories) > 0
                       /\ ~FalsyString(event.categories[1].title)
                    THEN event.categories[1].title ELSE "Natural event"
        magnitude == IF Len(event.geometry) = 0 THEN NaN
                     ELSE event.geometry[1].magnitudeValue
        parts ==
            <<event.title>>
            \o (IF FalsyString(event.closed) THEN <<"(Currently active)">>
                ELSE <<"(Ended " \o LocaleDate(DateValue(event.closed)) \o ")">>)
            \o (IF ~FalsyString(event.description) THEN <<event.description>>
                ELSE <<category \o " detected on "
                         \o LocaleDate(DateValue(FirstDate(event))) \o ".">>)
            \o (IF ~FalsyNumber(magnitude)
                THEN <<"Magnitude: " \o Decimal(magnitude) \o " "
                         \o (IF FalsyString(event.geometry[1].magnitudeUnit) THEN ""
                             ELSE event.geometry[1].magnitudeUnit)>>
                ELSE <<>>)
            \o (IF Len(event.sources) > 0
                THEN <<"Source: " \o joinIds(event.sources)>> ELSE <<>>)
    IN  join(parts, " ")

RECURSIVE sumOf(_, _)
\* the sum of component c of the positions of a ring list
sumOf(ring, c) == IF ring = <<>> THEN 0 ELSE Head(ring)[c] + sumOf(Tail(ring), c)

\* null is << >>, {latitude, longitude} is <<[latitude, longitude]>>; the
\* centroid's quotient is an integer quotient in hundredths of a degree
extractCoordinates(geometry) ==
    IF Len(geometry) = 0 THEN <<>>
    ELSE LET latestGeometry == geometry[Len(geometry)]
             coords == latestGeometry.coordinates
         IN  IF latestGeometry.type = "Point"
             THEN IF Len(coords) >= 1
                  THEN << [longitude |-> coords[1][1], latitude |-> coords[1][2]] >>
                  ELSE <<>>
             ELSE IF latestGeometry.type = "Polygon"
             THEN IF Len(coords) > 0
                  THEN LET count == Len(coords)
                           sumLon == sumOf(coords, 1)
                           sumLat == sumOf(coords, 2)
                       IN  IF \E k \in 1..count : isNaN(coords[k][1]) \/ isNaN(coords[k][2])
                           THEN << [longitude |-> NaN, latitude |-> NaN] >>
                           ELSE << [longitude |-> sumLon \div count,
                                    latitude |-> sumLat \div count] >>
                  ELSE <<>>
             ELSE <<>>

isValidEvent(event) ==
    LET coords == extractCoordinates(event.geometry)
    IN  IF coords = <<>> THEN FALSE
        ELSE IF isNaN(coords[1].latitude) \/ isNaN(coords[1].longitude) THEN FALSE
        ELSE IF Abs(coords[1].latitude) > 9000 \/ Abs(coords[1].longitude) > 18000
        THEN FALSE
        ELSE IF FalsyString(event.title) \/ Len(trim(event.title)) = 0 THEN FALSE
        ELSE IF Len(event.categories) = 0 THEN FALSE
        ELSE IF FalsyString(FirstDate(event)) THEN FALSE
        ELSE IF isNaN(DateValue(event.geometry[1].date)) THEN FALSE
        ELSE TRUE

\* null is << >>, a record d is <<d>>
EonetConvertToDisasterLocation(event) ==
    IF ~isValidEvent(event) THEN <<>>
    ELSE LET coords == extractCoordinates(event.geometry)
         IN  IF coords = <<>> THEN <<>>
             ELSE LET date == DateValue(event.geometry[1].date)
                      type == mapCategoryToType(event.categories)
                  IN  << [id |-> "eonet-" \o event.id,
                          name |-> event.title,
                          type |-> type,
                          latitude |-> coords[1].latitude,
                          longitude |-> coords[1].longitude,
                          date |-> date,
                          severity |-> EonetCalculateSeverity(event),
                          affectedPeople |-> 0,
                          summary |-> SummaryOf(EonetGenerateSummary(event)),
                          donationLinks |-> <<>>,
                          source |-> "NASA EONET",
                          sourceUrl |-> event.link,
                          imageUrl |-> Undefined,
                          magnitude |-> event.geometry[1].magnitudeValue] >>

RECURSIVE convertEvents(_)
\* the loop of fetchActiveEvents and fetchRecentEvents over data.events
convertEvents(events) ==
    IF events = <<>> THEN <<>>
    ELSE EonetConvertToDisasterLocation(Head(events)) \o convertEvents(Tail(events))

----------------------------------------------------------------------------
(* The fetchers                                                            *)
(* What the network delivers to a fetcher is                               *)
(*   network  : fetch() rejects                                            *)
(*   ok       : response.ok                                                *)
(*   readable : the body is read without an exception (XLSX.read,          *)
(*              response.json)                                             *)
(*   array    : the body holds the record array (a first sheet,            *)
(*              data.events, data.features)                                *)
(*   records  : the raw records of that array                              *)
(* A fetcher's promise settles as [state, value].                          *)

Fulfilled(v) == [state |-> "fulfilled", value |-> v]

Rejected == [state |-> "rejected", value |-> <<>>]

\* EmdatService.loadFromFile: the status of the response is not read; a
\* workbook without a sheet gives no rows
loadFromFile(resp) ==
    IF resp.network \/ ~resp.readable
    THEN Fulfilled(<<>>)                       \* catch (error) { return [] }
    ELSE LET jsonData == IF resp.array THEN resp.records ELSE <<>>
         IN  Fulfilled(processEmdatData(jsonData))

\* EmdatService.loadFromUrl: the same statements
loadFromUrl(resp) ==
    IF resp.network \/ ~resp.readable
    THEN Fulfilled(<<>>)
    ELSE LET jsonData == IF resp.array THEN resp.records ELSE <<>>
         IN  Fulfilled(processEmdatData(jsonData))

fetchActiveEvents(resp) ==
    IF resp.network \/ ~resp.ok \/ ~resp.readable
    THEN Fulfilled(<<>>)                       \* catch (error) { return [] }
    ELSE IF ~resp.array THEN Fulfilled(<<>>)
    ELSE Fulfilled(convertEvents(resp.records))

fetchRecentEvents(resp) ==
    IF resp.network \/ ~resp.ok \/ ~resp.readable
    THEN Fulfilled(<<>>)
    ELSE IF ~resp.array THEN Fulfilled(<<>>)
    ELSE Fulfilled(convertEvents(resp.records))

fetchRecentEarthquakes(resp) ==
    IF resp.network \/ ~resp.ok \/ ~resp.readable
    THEN Fulfilled(<<>>)                       \* catch (error) { return [] }
    ELSE IF ~resp.array THEN Fulfilled(<<>>)
    ELSE Fulfilled(convertFeatures(resp.records))

SourceTags == {"emdat", "eonet", "usgs"}

\* a response with a readable body that holds the records
Delivered(records) ==
    [network |-> FALSE, ok |-> TRUE, readable |-> TRUE, array |-> TRUE,
     records |-> records]

\* no fetch is part of the run
NoFetch ==
    /\ response = [s \in SourceTags |-> Delivered(<<>>)]
    /\ fetchState = [s \in SourceTags |-> "idle"]
    /\ order = <<>>

----------------------------------------------------------------------------
(* The records the inputs are drawn from                                   *)

\* the enrichment of a record: the fields calculateInformationScore reads
Bare == [name |-> "", summary |-> [length |-> 0, trimmed |-> 0],
         affectedPeople |-> 0, magnitude |-> NaN, sourceUrl |-> "",
         imageUrl |-> "", donationLinks |-> <<>>]

\* a named record with a one-sentence summary and nothing else
Poor == [Bare EXCEPT !.name = "Event", !.summary = [length |-> 40, trimmed |-> 40]]

\* a record with every enrichment field filled in
Rich == [name |-> "Event", summary |-> [length |-> 120, trimmed |-> 120],
         affectedPeople |-> 5000, magnitude |-> 61,
         sourceUrl |-> "https://source", imageUrl |-> "https://image",
         donationLinks |-> <<"relief">>]

\* a DisasterLocation on the model's meridian
Record(id, source, type, latitude, date, info) ==
    [id |-> id, name |-> info.name, type |-> type, latitude |-> latitude,
     longitude |-> 0, date |-> date, severity |-> "low",
     affectedPeople |-> info.affectedPeople, summary |-> info.summary,
     donationLinks |-> info.donationLinks, source |-> source,
     sourceUrl |-> info.sourceUrl, imageUrl |-> info.imageUrl,
     magnitude |-> info.magnitude]

\* the identifiers the three normalizers give: a source tag and a native id
EmdatIds == <<"emdat-1", "emdat-2", "emdat-3", "emdat-4", "emdat-5">>

EonetIds == <<"eonet-1", "eonet-2", "eonet-3", "eonet-4", "eonet-5">>

UsgsIds == <<"usgs-1", "usgs-2", "usgs-3", "usgs-4", "usgs-5">>

\* at most this many records over the three input lists
MaxTotal == 3

\* the lengths of the three input lists
Lengths == { l \in (0..MaxTotal) \X (0..MaxTotal) \X (0..MaxTotal) :
               l[1] + l[2] + l[3] <= MaxTotal }

NoRecord == Record("", Undefined, "other", 0, 0, Bare)

\* the state before mergeSources has run a line
Entry ==
    /\ cleanEmdat = <<>> /\ cleanEonet = <<>> /\ cleanUsgs = <<>>
    /\ allDisasters = <<>>
    /\ stats = [totalEvents |-> 0, duplicatesRemoved |-> 0,
                sourceBreakdown |-> EmptyObject, typeBreakdown |-> EmptyObject]
    /\ uniqueDisasters = <<>>
    /\ processed = {}
    /\ i = 1
    /\ clusters = <<>>
    /\ pc = "start"

NoPairCall == disaster1 = NoRecord /\ disaster2 = NoRecord /\ ret = [op |-> "none"]

\* latitudes 40 km apart: the outer two are 80 km apart
Latitudes == {0, 36, 72}

\* a date (now, or ten hours before) and an enrichment
Enrichments == {<<0, Poor>>, <<-100, Poor>>, <<-100, Rich>>}

\* what varies in a record of the main specification
Variants == Latitudes \X Enrichments

\* the lists of n earthquake records of one source, identifiers by position
ListsOf(source, ids, n) ==
    { [k \in 1..n |-> Record(ids[k], source, "earthquake", v[k][1], v[k][2][1],
                             v[k][2][2])] :
        v \in [1..n -> Variants] }

\* each list as its normalizer delivers it: valid records of its own source
Init ==
    /\ \E l \in Lengths :
          /\ emdatDisasters \in ListsOf("EM-DAT", EmdatIds, l[1])
          /\ eonetDisasters \in ListsOf("NASA EONET", EonetIds, l[2])
          /\ usgsDisasters \in ListsOf("USGS", UsgsIds, l[3])
    /\ Entry
    /\ NoPairCall
    /\ NoFetch

----------------------------------------------------------------------------
(* mergeSources, step by step                                              *)

\* the three lists filtered in place
CleanSourcesInPlace ==
    /\ pc = "start"
    /\ emdatDisasters' = cleanDisasters(emdatDisasters)
    /\ eonetDisasters' = cleanDisasters(eonetDisasters)
    /\ usgsDisasters' = cleanDisasters(usgsDisasters)
    /\ cleanEmdat' = emdatDisasters'
    /\ cleanEonet' = eonetDisasters'
    /\ cleanUsgs' = usgsDisasters'
    /\ pc' = "cleaned"
    /\ UNCHANGED <<allDisasters, stats, uniqueDisasters, processed, i, clusters>>
    /\ UNCHANGED <<pairVars, fetchVars>>

\* lines 263-265: the three cleanDisasters calls
CleanSources ==
    /\ pc = "start"
    /\ cleanEmdat' = cleanDisasters(emdatDisasters)
    /\ cleanEonet' = cleanDisasters(eonetDisasters)
    /\ cleanUsgs' = cleanDisasters(usgsDisasters)
    /\ pc' = "cleaned"
    /\ UNCHANGED <<emdatDisasters, eonetDisasters, usgsDisasters, allDisasters, stats,
                   uniqueDisasters, processed, i, clusters>>
    /\ UNCHANGED <<pairVars, fetchVars>>

\* mergeDisasters lines 146-165: flatten, statistics, empty output
BeginMerge ==
    /\ pc = "cleaned"
    /\ allDisasters' = flat(cleanEmdat, cleanEonet, cleanUsgs)
    /\ stats' = initialStats(allDisasters')
    /\ uniqueDisasters' = <<>>
    /\ processed' = {}
    /\ i' = 1
    /\ clusters' = <<>>
    /\ pc' = "loop"
    /\ UNCHANGED <<emdatDisasters, eonetDisasters, usgsDisasters, cleanEmdat,
                   cleanEonet, cleanUsgs>>
    /\ UNCHANGED <<pairVars, fetchVars>>

\* the loop's state in the variables
LoopState == [i |-> i, processed |-> processed, uniqueDisasters |-> uniqueDisasters,
              duplicatesRemoved |-> stats.duplicatesRemoved, clusters |-> clusters]

Iterate ==
    LET st == outerIteration(allDisasters, LoopState)
    IN  /\ i' = st.i
        /\ processed' = st.processed
        /\ uniqueDisasters' = st.uniqueDisasters
        /\ stats' = [stats EXCEPT !.duplicatesRemoved = st.duplicatesRemoved]
        /\ clusters' = st.clusters
        /\ UNCHANGED <<emdatDisasters, eonetDisasters, usgsDisasters, cleanEmdat,
                       cleanEonet, cleanUsgs, allDisasters, pc>>
        /\ UNCHANGED <<pairVars, fetchVars>>

\* line 168: the record's id is in `processed`, continue
SkipProcessed ==
    /\ pc = "loop"
    /\ i <= Len(allDisasters)
    /\ allDisasters[i].id \in processed
    /\ Iterate

\* lines 170-197: the record anchors a cluster
FormCluster ==
    /\ pc = "loop"
    /\ i <= Len(allDisasters)
    /\ allDisasters[i].id \notin processed
    /\ Iterate

\* lines 200-210: sort and return
SortAndReturn ==
    /\ pc = "loop"
    /\ i > Len(allDisasters)
    /\ uniqueDisasters' = sortByDate(uniqueDisasters)
    /\ pc' = "done"
    /\ UNCHANGED <<emdatDisasters, eonetDisasters, usgsDisasters, cleanEmdat,
                   cleanEonet, cleanUsgs, allDisasters, stats, processed, i, clusters>>
    /\ UNCHANGED <<pairVars, fetchVars>>

Next == CleanSources \/ BeginMerge \/ SkipProcessed \/ FormCluster \/ SortAndReturn

Spec == Init /\ [][Next]_vars

----------------------------------------------------------------------------
(* mergeSources called with any records                                    *)

\* an EM-DAT identifier taken from the row's DisNo. column
DisNo == "2024-0001-USA"

\* the records a caller may pass at a position whose identifier is id:
\* valid records of several sources and types at one place, a record whose
\* identifier is its DisNo., and USGS records the validator rejects
AnyRecords(id) ==
    { Record(id, "EM-DAT", "earthquake", 0, 0, Poor),
      Record(id, "USGS", "earthquake", 0, 0, Rich),
      Record(id, Undefined, "earthquake", 0, 0, Poor),
      Record(id, "EM-DAT", "flood", 0, -100, Poor),
      Record(DisNo, "EM-DAT", "flood", 0, 0, Poor),
      [Record(id, "USGS", "earthquake", 0, 0, Rich) EXCEPT !.name = ""],
      Record("", "USGS", "earthquake", 0, 0, Rich),
      Record(id, "USGS", "earthquake", 9001, 0, Rich),
      Record(id, "USGS", "earthquake", 0, 1681, Rich) }

AnyListsOf(ids, n) ==
    { l \in [1..n -> UNION { AnyRecords(ids[k]) : k \in 1..n }] :
        \A k \in 1..n : l[k] \in AnyRecords(ids[k]) }

InitAny ==
    /\ \E l \in Lengths :
          /\ emdatDisasters \in AnyListsOf(EmdatIds, l[1])
          /\ eonetDisasters \in AnyListsOf(EonetIds, l[2])
          /\ usgsDisasters \in AnyListsOf(UsgsIds, l[3])
    /\ Entry
    /\ NoPairCall
    /\ NoFetch

SpecAny == InitAny /\ [][Next]_vars

----------------------------------------------------------------------------
(* mergeSources called with a list and its relabelled copy                 *)

\* at most this many records in the list that is copied
MaxCopy == 2

\* the lists of n valid earthquake records tagged "A": 40 km apart or far away
TaggedLists(n) ==
    { [k \in 1..n |-> Record(EmdatIds[k], "A", "earthquake", v[k][1], 0, v[k][2])] :
        v \in [1..n -> {0, 36, 900} \X {Poor, Rich}] }

\* the copy of a list with every record's source replaced
Relabel(list, tag) == [k \in DOMAIN list |-> [list[k] EXCEPT !.source = tag]]

InitSelf ==
    /\ \E n \in 1..MaxCopy : emdatDisasters \in TaggedLists(n)
    /\ eonetDisasters = Relabel(emdatDisasters, "B")
    /\ usgsDisasters = <<>>
    /\ Entry
    /\ NoPairCall
    /\ NoFetch

SpecSelf == InitSelf /\ [][Next]_vars

----------------------------------------------------------------------------
(* The pair functions called on their own                                  *)

Types == {"wildfire", "flood", "hurricane", "drought", "heatwave", "storm",
          "earthquake", "volcano", "other"}

\* hundredths of a degree north of the first record: 1.112 km each, so the
\* distances fall on both sides of 20, 50, 100 and 200 km, and at 40 and 60 km
PairLatitudes == {0, 17, 18, 36, 44, 45, 54, 89, 90, 179, 180}

\* tenths of an hour before the first record: at and just over 24, 48, 72
\* and 168 hours, and one hour
PairDates == {0, -10, -240, -241, -480, -481, -720, -721, -1680, -1681}

\* pairs that differ in source, type, place and time
DuplicatePairs ==
    { <<Record("a", p[1], p[2], 0, 0, Poor), Record("b", q[1], q[2], q[3], q[4], Poor)>> :
        p \in {"EM-DAT", Undefined} \X Types,
        q \in {"EM-DAT", "USGS", Undefined} \X {"earthquake", "wildfire", "other"}
                \X PairLatitudes \X PairDates }
    \cup
    { <<Record("a", s, t, 0, 0, Poor), Record("b", "NASA EONET", t, q[1], q[2], Poor)>> :
        s \in {"EM-DAT"}, t \in Types, q \in PairLatitudes \X PairDates }

\* enrichments that differ in one field, or in the kind of its value
Profiles ==
    { Bare, Poor, Rich,
      [Bare EXCEPT !.name = "Event"],
      [Bare EXCEPT !.name = "   "],
      [Bare EXCEPT !.summary = [length |-> 10, trimmed |-> 10]],
      [Bare EXCEPT !.summary = [length |-> 60, trimmed |-> 0]],
      [Bare EXCEPT !.summary = [length |-> 60, trimmed |-> 60]],
      [Bare EXCEPT !.summary = [length |-> 120, trimmed |-> 120]],
      [Bare EXCEPT !.affectedPeople = 5000],
      [Bare EXCEPT !.magnitude = 61],
      [Bare EXCEPT !.magnitude = 0],
      [Bare EXCEPT !.sourceUrl = "https://source"],
      [Bare EXCEPT !.imageUrl = "https://image"],
      [Bare EXCEPT !.donationLinks = <<"relief">>] }

Sources == {"USGS", "NASA EONET", "EM-DAT", Undefined, "A", "B"}

\* pairs at one place and time that differ in source and enrichment
CandidatePairs ==
    { <<Record("a", p[1], "earthquake", 0, 0, p[2]),
        Record("b", q[1], "earthquake", 0, 0, q[2])>> :
        p \in Sources \X Profiles, q \in Sources \X Profiles }

InitPair ==
    /\ \E p \in DuplicatePairs \cup CandidatePairs :
          \/ disaster1 = p[1] /\ disaster2 = p[2]
          \/ disaster1 = p[2] /\ disaster2 = p[1]
    /\ ret = [op |-> "none"]
    /\ emdatDisasters = <<>> /\ eonetDisasters = <<>> /\ usgsDisasters = <<>>
    /\ cleanEmdat = <<>> /\ cleanEonet = <<>> /\ cleanUsgs = <<>>
    /\ allDisasters = <<>>
    /\ stats = [totalEvents |-> 0, duplicatesRemoved |-> 0,
                sourceBreakdown |-> EmptyObject, typeBreakdown |-> EmptyObject]
    /\ uniqueDisasters = <<>>
    /\ processed = {}
    /\ i = 1
    /\ clusters = <<>>
    /\ pc = "pair"
    /\ NoFetch

CallAreDuplicates ==
    /\ pc = "pair" /\ ret.op = "none"
    /\ ret' = [op |-> "areDuplicates", value |-> areDuplicates(disaster1, disaster2)]
    /\ UNCHANGED <<disaster1, disaster2, pc>>
    /\ UNCHANGED <<mergeVars, fetchVars>>

CallChooseBetterRecord ==
    /\ pc = "pair" /\ ret.op = "none"
    /\ ret' = [op |-> "chooseBetterRecord",
               value |-> chooseBetterRecord(disaster1, disaster2)]
    /\ UNCHANGED <<disaster1, disaster2, pc>>
    /\ UNCHANGED <<mergeVars, fetchVars>>

CallCalculateInformationScore ==
    /\ pc = "pair" /\ ret.op = "none"
    /\ ret' = [op |-> "calculateInformationScore",
               value |-> calculateInformationScore(disaster1)]
    /\ UNCHANGED <<disaster1, disaster2, pc>>
    /\ UNCHANGED <<mergeVars, fetchVars>>

NextPair == CallAreDuplicates \/ CallChooseBetterRecord \/ CallCalculateInformationScore

SpecPair == InitPair /\ [][NextPair]_vars

----------------------------------------------------------------------------
(* validateDisaster and cleanDisasters called on their own                 *)

\* the four severities of DisasterLocation
Severities == {"low", "moderate", "high", "critical"}

\* the record validated first: a USGS earthquake record whose checked fields
\* take values inside their ranges, at their limits and outside them
OriginalRecords ==
    { [Record(v[1], "USGS", v[2], v[3], v[5], Rich)
          EXCEPT !.longitude = v[4], !.severity = v[6]] :
        v \in {"usgs-1", ""} \X {"earthquake", "volcano", "tsunami"}
                \X {0, 9000, -9001} \X {0, -18000, 18001}
                \X {0, 1680, 1681, NaN} \X {"low", "critical", "extreme"} }

\* the record with one field changed to a value outside its range
OutOfRange(d) ==
    {[d EXCEPT !.id = ""]}
    \cup { [d EXCEPT !.type = t] : t \in {"tsunami", "landslide"} }
    \cup { [d EXCEPT !.latitude = x] : x \in {9001, -9001, 12000, NaN} }
    \cup { [d EXCEPT !.longitude = x] : x \in {18001, -18001, 36000, NaN} }
    \cup { [d EXCEPT !.date = x] : x \in {NaN, 1681, 87600} }
    \cup { [d EXCEPT !.severity = s] : s \in {"extreme", ""} }

\* the record with one field changed to another value inside its range, or
\* with a field no invariant is about changed
InRange(d) ==
    {d}
    \cup { [d EXCEPT !.type = t] : t \in Types }
    \cup { [d EXCEPT !.latitude = x] : x \in {-9000, 9000} }
    \cup { [d EXCEPT !.longitude = x] : x \in {-18000, 18000} }
    \cup { [d EXCEPT !.date = x] : x \in {1680, -87600} }
    \cup { [d EXCEPT !.severity = s] : s \in Severities }
    \cup { [d EXCEPT !.name = n] : n \in {"", "   "} }
    \cup { [d EXCEPT !.summary = [length |-> 0, trimmed |-> 0]] }

InitValidate ==
    /\ disaster1 \in OriginalRecords
    /\ disaster2 \in OutOfRange(disaster1) \cup InRange(disaster1)
    /\ ret = [op |-> "none"]
    /\ emdatDisasters = <<>> /\ eonetDisasters = <<>> /\ usgsDisasters = <<>>
    /\ cleanEmdat = <<>> /\ cleanEonet = <<>> /\ cleanUsgs = <<>>
    /\ allDisasters = <<>>
    /\ stats = [totalEvents |-> 0, duplicatesRemoved |-> 0,
                sourceBreakdown |-> EmptyObject, typeBreakdown |-> EmptyObject]
    /\ uniqueDisasters = <<>>
    /\ processed = {}
    /\ i = 1
    /\ clusters = <<>>
    /\ pc = "validate"
    /\ NoFetch

\* validateDisaster on the first record, then on the second
CallValidateDisaster ==
    /\ pc = "validate" /\ ret.op = "none"
    /\ ret' = [op |-> "validateDisaster",
               original |-> validateDisaster(disaster1),
               value |-> validateDisaster(disaster2)]
    /\ UNCHANGED <<disaster1, disaster2, pc>>
    /\ UNCHANGED <<mergeVars, fetchVars>>

\* cleanDisasters on the list of the two records
CallCleanDisasters ==
    /\ pc = "validate" /\ ret.op = "none"
    /\ ret' = [op |-> "cleanDisasters",
               value |-> cleanDisasters(<<disaster1, disaster2>>)]
    /\ UNCHANGED <<disaster1, disaster2, pc>>
    /\ UNCHANGED <<mergeVars, fetchVars>>

NextValidate == CallValidateDisaster \/ CallCleanDisasters

SpecValidate == InitValidate /\ [][NextValidate]_vars

----------------------------------------------------------------------------
(* The normalizers called on their own                                     *)

\* a row of the spreadsheet: an earthquake in the USA on 31 December 2025
EmdatRow(disNo, latitude, longitude) ==
    [DisNo |-> disNo, EventName |-> Undefined, DisasterType |-> "Earthquake",
     Country |-> "USA", Location |-> Undefined, Latitude |-> latitude,
     Longitude |-> longitude, StartYear |-> 2025, StartMonth |-> 12, StartDay |-> 31,
     TotalAffected |-> 5000, TotalDeaths |-> NaN]

\* rows that differ in every column the normalizer reads
EmdatRows ==
    { [EmdatRow(v[1], v[4], v[5]) EXCEPT
          !.EventName = v[2], !.DisasterType = v[3],
          !.StartYear = v[6][1], !.StartMonth = v[6][2], !.StartDay = v[6][3],
          !.TotalAffected = v[7], !.TotalDeaths = v[8]] :
        v \in {Undefined, "2025-0001-USA"} \X {Undefined, "Northridge"}
                \X {Undefined, "Earthquake", "Flash Flood"}
                \X {NaN, 0, 3400, 9000, 9500} \X {NaN, 0, -11800, 18500}
                \X {<<NaN, NaN, NaN>>, <<2025, 12, 31>>, <<2025, NaN, NaN>>,
                    <<2030, 6, 15>>}
                \X {NaN, 0, 5000, 2000000} \X {NaN, 120} }

\* payloads of two rows: with or without DisNo., with or without coordinates
EmdatPairs ==
    { <<EmdatRow(a[1], a[2], -11800), EmdatRow(b[1], b[2], -11800)>> :
        a \in {Undefined, "2025-0001-USA"} \X {NaN, 3400},
        b \in {Undefined, "2025-0002-USA"} \X {NaN, 3436} }

\* a feature of the earthquake feed
UsgsFeature(id, longitude, latitude, depth, mag, time) ==
    [id |-> id,
     coordinates |-> <<longitude, latitude, depth>>,
     properties |-> [mag |-> mag, place |-> "10 km N of Northridge, CA",
                     time |-> time, title |-> "M 6.1 - 10 km N of Northridge, CA",
                     url |-> "https://earthquake.usgs.gov/earthquakes/eventpage/" \o id,
                     tsunami |-> 0, alert |-> Undefined, felt |-> NaN]]

UsgsFeatures ==
    { [UsgsFeature("ci40001", c[1], c[2], c[3], v[1], v[2]) EXCEPT
          !.properties.title = v[3][1], !.properties.place = v[3][2],
          !.properties.tsunami = v[4][1], !.properties.alert = v[4][2],
          !.properties.felt = v[4][3]] :
        c \in ({-11800, 18000, 18500, NaN} \X {3400, -9000, 9500} \X {100, NaN})
                \cup {<<0, 0, 100>>, <<-11800, NaN, 100>>},
        v \in {NaN, 0, 45, 50, 55, 60, 61, 70, 80} \X {NaN, Epoch, -100, 1680, 2000}
                \X {<<"M 6.1 - Northridge", "Northridge">>, <<Undefined, "Northridge">>,
                    <<Undefined, Undefined>>}
                \X {<<0, Undefined, NaN>>, <<1, "red", 12>>} }
    \cup { [UsgsFeature("ci40001", -11800, 3400, 100, 61, -100)
               EXCEPT !.coordinates = <<>>] }

UsgsPairs ==
    { <<UsgsFeature("ci40001", -11800, a, 100, 61, -100),
        UsgsFeature("ci40002", -11800, 3436, 100, 45, -100)>> : a \in {3400, 9500} }

\* an entry of event.geometry
Geometry(type, coordinates, date) ==
    [magnitudeValue |-> NaN, magnitudeUnit |-> Undefined, date |-> date,
     type |-> type, coordinates |-> coordinates]

Geometries ==
    { <<Geometry("Point", <<<<-11800, 3436>>>>, d)>> :
        d \in {"2025-12-31T14:00:00Z", "2025-09-23T00:00:00Z", "2026-01-09T08:00:00Z",
               "yesterday", "", Undefined} }
    \cup { <<Geometry("Point", <<p>>, "2025-12-31T14:00:00Z")>> :
             p \in {<<-11800, 9000>>, <<-11800, 9500>>, <<18500, 3436>>,
                    <<NaN, 3436>>, <<0, 0>>} }
    \cup { <<Geometry("Point", <<>>, "2025-12-31T14:00:00Z")>>,
           <<Geometry("LineString", <<<<-11800, 3436>>>>, "2025-12-31T14:00:00Z")>>,
           <<Geometry("Polygon", <<>>, "2025-12-31T14:00:00Z")>>,
           <<Geometry("Polygon", <<<<-11800, 3400>>, <<-11800, 3472>>>>,
                      "2025-12-31T14:00:00Z")>>,
           <<Geometry("Polygon", <<<<-11800, 9500>>, <<-11800, 9700>>>>,
                      "2025-12-31T14:00:00Z")>>,
           <<Geometry("Point", <<<<-11800, 3400>>>>, "2025-12-02T00:00:00Z"),
             [Geometry("Point", <<<<-11800, 3436>>>>, "2025-12-31T14:00:00Z")
                 EXCEPT !.magnitudeValue = 35, !.magnitudeUnit = "kts"]>>,
           <<[Geometry("Point", <<<<-11800, 3436>>>>, "2025-12-31T14:00:00Z")
                 EXCEPT !.magnitudeValue = 61, !.magnitudeUnit = "Mw"]>>,
           <<>> }

Category(title) == [id |-> toLowerCase(title), title |-> title]

EonetEvent(id, title, categories, geometry) ==
    [id |-> id, title |-> title, description |-> Undefined,
     link |-> "https://eonet.gsfc.nasa.gov/api/v3/events/" \o id,
     closed |-> Undefined, categories |-> categories, sources |-> <<>>,
     geometry |-> geometry]

EonetEvents ==
    { [EonetEvent("EONET_6001", v[1], v[2], g) EXCEPT
          !.description = v[3][1], !.closed = v[3][2], !.sources = v[3][3]] :
        g \in Geometries,
        v \in {"Northridge Event", "", "   "}
                \X {<<>>, <<Category("Wildfires")>>, <<Category("Earthquakes")>>,
                    <<Category("Volcanoes")>>, <<Category("Severe Storms")>>,
                    <<Category("Drought")>>, <<Category("Dust and Haze")>>}
                \X {<<Undefined, Undefined, <<>>>>,
                    <<"Reported by the agency.", "2026-01-01T00:00:00Z",
                      <<[id |-> "InciWeb", url |-> "https://inciweb"],
                        [id |-> "IRWIN", url |-> "https://irwin"]>>>>} }

EonetPairs ==
    { <<EonetEvent("EONET_6001", "First", <<Category("Earthquakes")>>, g),
        EonetEvent("EONET_6002", "Second", <<Category("Earthquakes")>>,
                   <<Geometry("Point", <<<<-11800, 3436>>>>, "2025-12-31T14:00:00Z")>>)>> :
        g \in { <<Geometry("Point", <<<<-11800, 3400>>>>, "2025-12-31T14:00:00Z")>>,
                <<>> } }

InitNormalize ==
    /\ \/ \E rows \in { <<r>> : r \in EmdatRows } \cup EmdatPairs \cup {<<>>} :
             response = [s \in SourceTags |->
                            Delivered(IF s = "emdat" THEN rows ELSE <<>>)]
       \/ \E events \in { <<e>> : e \in EonetEvents } \cup EonetPairs :
             response = [s \in SourceTags |->
                            Delivered(IF s = "eonet" THEN events ELSE <<>>)]
       \/ \E features \in { <<f>> : f \in UsgsFeatures } \cup UsgsPairs :
             response = [s \in SourceTags |->
                            Delivered(IF s = "usgs" THEN features ELSE <<>>)]
    /\ fetchState = [s \in SourceTags |-> "idle"]
    /\ order = <<>>
    /\ disaster1 = NoRecord /\ disaster2 = NoRecord
    /\ ret = [op |-> "none"]
    /\ emdatDisasters = <<>> /\ eonetDisasters = <<>> /\ usgsDisasters = <<>>
    /\ cleanEmdat = <<>> /\ cleanEonet = <<>> /\ cleanUsgs = <<>>
    /\ allDisasters = <<>>
    /\ stats = [totalEvents |-> 0, duplicatesRemoved |-> 0,
                sourceBreakdown |-> EmptyObject, typeBreakdown |-> EmptyObject]
    /\ uniqueDisasters = <<>>
    /\ processed = {}
    /\ i = 1
    /\ clusters = <<>>
    /\ pc = "normalize"

\* EmdatService.processEmdatData on the rows of the sheet
CallProcessEmdatData ==
    /\ pc = "normalize" /\ ret.op = "none"
    /\ ret' = [op |-> "processEmdatData", raw |-> response.emdat.records,
               value |-> processEmdatData(response.emdat.records)]
    /\ UNCHANGED <<disaster1, disaster2, pc>>
    /\ UNCHANGED <<mergeVars, fetchVars>>

\* EONETService.convertToDisasterLocation on every event of data.events
CallConvertEvents ==
    /\ pc = "normalize" /\ ret.op = "none"
    /\ response.eonet.records # <<>>
    /\ ret' = [op |-> "convertEvents", raw |-> response.eonet.records,
               value |-> convertEvents(response.eonet.records)]
    /\ UNCHANGED <<disaster1, disaster2, pc>>
    /\ UNCHANGED <<mergeVars, fetchVars>>

\* USGSService.convertToDisasterLocation on every feature of data.features
CallConvertFeatures ==
    /\ pc = "normalize" /\ ret.op = "none"
    /\ response.usgs.records # <<>>
    /\ ret' = [op |-> "convertFeatures", raw |-> response.usgs.records,
               value |-> convertFeatures(response.usgs.records)]
    /\ UNCHANGED <<disaster1, disaster2, pc>>
    /\ UNCHANGED <<mergeVars, fetchVars>>

NextNormalize == CallProcessEmdatData \/ CallConvertEvents \/ CallConvertFeatures

SpecNormalize == InitNormalize /\ [][NextNormalize]_vars

----------------------------------------------------------------------------
(* The three fetches issued together and merged when all have settled      *)
(* The services hold the fetchers; the caller that issues the three        *)
(* fetches at once, wraps each one and passes the three lists to           *)
(* mergeSources is the one section 5 of the specification describes.       *)

\* three reports of one earthquake on 31 December 2025, 14:00: the row at
\* 34.00 N, the feature 40 km north of it, the event 80 km north of it
RowA == EmdatRow("2025-0001-USA", 3400, -11800)

FeatureA == UsgsFeature("ci40001", -11800, 3436, 100, 61, -100)

EventA ==
    EonetEvent("EONET_6001", "Northridge Event", <<Category("Earthquakes")>>,
               <<Geometry("Point", <<<<-11800, 3472>>>>, "2025-12-31T14:00:00Z")>>)

FetchedRows == {<<>>, <<RowA>>, <<EmdatRow(Undefined, NaN, -11800), RowA>>}

FetchedEvents ==
    {<<>>, <<EventA>>, <<EonetEvent("EONET_6002", "", <<>>, <<>>), EventA>>}

FetchedFeatures ==
    {<<>>, <<FeatureA>>, <<FeatureA, UsgsFeature("ci40002", -11800, 9500, 100, 45, -100)>>}

\* what the network may deliver for a source whose record arrays are `payloads`
Responses(payloads) ==
    { [network |-> TRUE, ok |-> FALSE, readable |-> FALSE, array |-> FALSE,
       records |-> <<>>] }
    \cup { [network |-> FALSE, ok |-> o, readable |-> FALSE, array |-> FALSE,
            records |-> <<>>] : o \in BOOLEAN }
    \cup { [network |-> FALSE, ok |-> o, readable |-> TRUE, array |-> FALSE,
            records |-> <<>>] : o \in BOOLEAN }
    \cup { [network |-> FALSE, ok |-> o, readable |-> TRUE, array |-> TRUE,
            records |-> r] : o \in BOOLEAN, r \in payloads }

\* the three fetches have been issued and none has settled
InitFetch ==
    /\ \E a \in Responses(FetchedRows), b \in Responses(FetchedEvents),
          c \in Responses(FetchedFeatures) :
             response = [s \in SourceTags |->
                            IF s = "emdat" THEN a ELSE IF s = "eonet" THEN b ELSE c]
    /\ fetchState = [s \in SourceTags |-> "pending"]
    /\ order = <<>>
    /\ emdatDisasters = <<>> /\ eonetDisasters = <<>> /\ usgsDisasters = <<>>
    /\ cleanEmdat = <<>> /\ cleanEonet = <<>> /\ cleanUsgs = <<>>
    /\ allDisasters = <<>>
    /\ stats = [totalEvents |-> 0, duplicatesRemoved |-> 0,
                sourceBreakdown |-> EmptyObject, typeBreakdown |-> EmptyObject]
    /\ uniqueDisasters = <<>>
    /\ processed = {}
    /\ i = 1
    /\ clusters = <<>>
    /\ pc = "fetching"
    /\ NoPairCall

\* the wrapper of a fetch: a rejected promise counts as an empty list
ListOrEmpty(settled) == IF settled.state = "fulfilled" THEN settled.value ELSE <<>>

\* EmdatService.loadFromFile or loadFromUrl settles
LoadFromFile ==
    /\ pc = "fetching" /\ fetchState.emdat = "pending"
    /\ \E settled \in {loadFromFile(response.emdat), loadFromUrl(response.emdat)} :
          /\ fetchState' = [fetchState EXCEPT !.emdat = settled.state]
          /\ emdatDisasters' = ListOrEmpty(settled)
    /\ order' = Append(order, "emdat")
    /\ UNCHANGED <<eonetDisasters, usgsDisasters, cleanEmdat, cleanEonet, cleanUsgs,
                   allDisasters, stats, uniqueDisasters, processed, i, clusters, pc,
                   response>>
    /\ UNCHANGED pairVars

\* EONETService.fetchRecentEvents or fetchActiveEvents settles
FetchRecentEvents ==
    /\ pc = "fetching" /\ fetchState.eonet = "pending"
    /\ \E settled \in {fetchRecentEvents(response.eonet),
                       fetchActiveEvents(response.eonet)} :
          /\ fetchState' = [fetchState EXCEPT !.eonet = settled.state]
          /\ eonetDisasters' = ListOrEmpty(settled)
    /\ order' = Append(order, "eonet")
    /\ UNCHANGED <<emdatDisasters, usgsDisasters, cleanEmdat, cleanEonet, cleanUsgs,
                   allDisasters, stats, uniqueDisasters, processed, i, clusters, pc,
                   response>>
    /\ UNCHANGED pairVars

\* USGSService.fetchRecentEarthquakes settles
FetchRecentEarthquakes ==
    /\ pc = "fetching" /\ fetchState.usgs = "pending"
    /\ LET settled == fetchRecentEarthquakes(response.usgs)
       IN  /\ fetchState' = [fetchState EXCEPT !.usgs = settled.state]
           /\ usgsDisasters' = ListOrEmpty(settled)
    /\ order' = Append(order, "usgs")
    /\ UNCHANGED <<emdatDisasters, eonetDisasters, cleanEmdat, cleanEonet, cleanUsgs,
                   allDisasters, stats, uniqueDisasters, processed, i, clusters, pc,
                   response>>
    /\ UNCHANGED pairVars

\* all three have settled: mergeSources is called with the three lists
MergeWhenSettled ==
    /\ pc = "fetching"
    /\ \A s \in SourceTags : fetchState[s] # "pending"
    /\ pc' = "start"
    /\ UNCHANGED mergeVars
    /\ UNCHANGED <<pairVars, fetchVars>>

NextFetch ==
    \/ LoadFromFile \/ FetchRecentEvents \/ FetchRecentEarthquakes
    \/ MergeWhenSettled
    \/ CleanSources \/ BeginMerge \/ SkipProcessed \/ FormCluster \/ SortAndReturn

SpecFetch == InitFetch /\ [][NextFetch]_vars

----------------------------------------------------------------------------
(* Category and severity inference called on their own                     *)

\* type names of the spreadsheet and category titles of the feed, and words
\* that hold one keyword of a table each
TypeWords ==
    {"Flood", "Wildfire", "Forest Fire", "Fire", "Hurricane", "Tropical Cyclone",
     "Typhoon", "Drought", "Heat Wave", "Extreme temperature", "Storm", "Wind",
     "Earthquake", "Seismic", "Volcano", "Snow", "Sea and Lake Ice", "Landslide",
     "Epidemic"}

\* a word, or two words in either order
TypeTexts == TypeWords \cup { a \o " " \o b : a, b \in TypeWords } \cup {""}

\* the row, the event and the feature of one report
RawReport(row, event, feature) ==
    [s \in SourceTags |->
        Delivered(IF s = "emdat" THEN <<row>>
                  ELSE IF s = "eonet" THEN <<event>> ELSE <<feature>>)]

\* the same type text in the row's column and as the event's first category;
\* a missing text is an empty cell and an event without categories
ReportsByText ==
    { RawReport([RowA EXCEPT !.DisasterType = text],
                [EventA EXCEPT !.categories =
                    IF text = Undefined THEN <<>> ELSE <<Category(text)>>],
                FeatureA) :
        text \in TypeTexts \cup {Undefined} }

\* counts on both sides of 10,000, 100,000 and 1,000,000 and of a tenth of them
ReportsByCounts ==
    { RawReport([RowA EXCEPT !.TotalAffected = affected, !.TotalDeaths = deaths],
                EventA, FeatureA) :
        affected \in {NaN, 0, 5000, 9999, 10000, 99999, 100000, 999999, 1000000},
        deaths \in {NaN, 0, 1, 999, 1000, 9999, 10000, 99999, 100000} }

\* magnitudes in tenths
Magnitudes == {NaN, 0, 45, 49, 50, 55, 59, 60, 69, 70, 79, 80, 95}

ReportsByMagnitude ==
    { RawReport(RowA, EventA, [FeatureA EXCEPT !.properties.mag = mag]) :
        mag \in Magnitudes }

CategoryTitles ==
    {"Wildfires", "Floods", "Severe Storms", "Drought", "Temperature Extremes",
     "Earthquakes", "Volcanoes", "Snow", "Landslides"}

\* first dates 0 to 121 days before the processing time, on both sides of
\* every threshold, one ahead of it and one that is no date
StartTexts ==
    {"2026-01-01T00:00:00Z", "2025-12-25T00:00:00Z", "2025-12-24T00:00:00Z",
     "2025-12-18T00:00:00Z", "2025-12-17T00:00:00Z", "2025-12-11T00:00:00Z",
     "2025-12-10T00:00:00Z", "2025-12-02T00:00:00Z", "2025-12-01T00:00:00Z",
     "2025-11-02T00:00:00Z", "2025-11-01T00:00:00Z", "2025-10-03T00:00:00Z",
     "2025-10-02T00:00:00Z", "2025-09-03T00:00:00Z", "2025-09-02T00:00:00Z",
     "2026-01-09T08:00:00Z", "yesterday"}

\* an open event, or one closed at the processing time or 8 days before it
ClosedTexts == {Undefined, "2026-01-01T00:00:00Z", "2025-12-24T00:00:00Z"}

ReportsByDuration ==
    { RawReport(RowA,
                [EventA EXCEPT !.categories = v[1], !.geometry[1].date = v[2],
                               !.closed = v[3], !.description = v[4]],
                FeatureA) :
        v \in ({<<>>} \cup { <<Category(t)>> : t \in CategoryTitles })
                \X StartTexts \X ClosedTexts \X {Undefined, "Reported by the agency."} }

InitInfer ==
    /\ response \in ReportsByText \cup ReportsByCounts \cup ReportsByMagnitude
                      \cup ReportsByDuration
    /\ fetchState = [s \in SourceTags |-> "idle"]
    /\ order = <<>>
    /\ disaster1 = NoRecord /\ disaster2 = NoRecord
    /\ ret = [op |-> "none"]
    /\ emdatDisasters = <<>> /\ eonetDisasters = <<>> /\ usgsDisasters = <<>>
    /\ cleanEmdat = <<>> /\ cleanEonet = <<>> /\ cleanUsgs = <<>>
    /\ allDisasters = <<>>
    /\ stats = [totalEvents |-> 0, duplicatesRemoved |-> 0,
                sourceBreakdown |-> EmptyObject, typeBreakdown |-> EmptyObject]
    /\ uniqueDisasters = <<>>
    /\ processed = {}
    /\ i = 1
    /\ clusters = <<>>
    /\ pc = "infer"

TheRow == response.emdat.records[1]

TheEvent == response.eonet.records[1]

TheFeature == response.usgs.records[1]

\* EmdatService.mapDisasterType(row['Disaster Type'])
CallMapDisasterType ==
    /\ pc = "infer" /\ ret.op = "none"
    /\ ret' = [op |-> "mapDisasterType", value |-> mapDisasterType(TheRow.DisasterType)]
    /\ UNCHANGED <<disaster1, disaster2, pc>>
    /\ UNCHANGED <<mergeVars, fetchVars>>

\* EONETService.mapCategoryToType(event.categories)
CallMapCategoryToType ==
    /\ pc = "infer" /\ ret.op = "none"
    /\ ret' = [op |-> "mapCategoryToType", value |-> mapCategoryToType(TheEvent.categories)]
    /\ UNCHANGED <<disaster1, disaster2, pc>>
    /\ UNCHANGED <<mergeVars, fetchVars>>

\* EmdatService.calculateSeverity(row['Total Affected'], row['Total Deaths'])
CallEmdatCalculateSeverity ==
    /\ pc = "infer" /\ ret.op = "none"
    /\ ret' = [op |-> "EmdatService.calculateSeverity",
               value |-> EmdatCalculateSeverity(TheRow.TotalAffected, TheRow.TotalDeaths)]
    /\ UNCHANGED <<disaster1, disaster2, pc>>
    /\ UNCHANGED <<mergeVars, fetchVars>>

\* USGSService.calculateSeverity(props.mag)
CallUsgsCalculateSeverity ==
    /\ pc = "infer" /\ ret.op = "none"
    /\ ret' = [op |-> "USGSService.calculateSeverity",
               value |-> UsgsCalculateSeverity(TheFeature.properties.mag)]
    /\ UNCHANGED <<disaster1, disaster2, pc>>
    /\ UNCHANGED <<mergeVars, fetchVars>>

\* EONETService.calculateSeverity(event)
CallEonetCalculateSeverity ==
    /\ pc = "infer" /\ ret.op = "none"
    /\ ret' = [op |-> "EONETService.calculateSeverity",
               value |-> EonetCalculateSeverity(TheEvent)]
    /\ UNCHANGED <<disaster1, disaster2, pc>>
    /\ UNCHANGED <<mergeVars, fetchVars>>

NextInfer ==
    \/ CallMapDisasterType \/ CallMapCategoryToType
    \/ CallEmdatCalculateSeverity \/ CallUsgsCalculateSeverity
    \/ CallEonetCalculateSeverity

SpecInfer == InitInfer /\ [][NextInfer]_vars

----------------------------------------------------------------------------
(* Properties of the merge                                                 *)

\* the records of a cluster, by their indices in allDisasters
Members(c) == { allDisasters[c.duplicateIndices[k]] : k \in DOMAIN c.duplicateIndices }

ClustersFormed == { clusters[k] : k \in DOMAIN clusters }

Output == { uniqueDisasters[k] : k \in DOMAIN uniqueDisasters }

\* C2: no duplicate cluster holds two records of the same source
C2_NoSameSourceInCluster ==
    \A c \in ClustersFormed :
        \A a, b \in DOMAIN c.duplicateIndices :
            a # b => allDisasters[c.duplicateIndices[a]].source
                       # allDisasters[c.duplicateIndices[b]].source

\* C3: the returned list is sorted by date, most recent first: of two
\* adjacent records the first is not older than the second
C3_SortedByDateDescending ==
    pc = "done" =>
        \A k \in 1..(Len(uniqueDisasters) - 1) :
            uniqueDisasters[k].date >= uniqueDisasters[k + 1].date

\* two clusters whose representatives were found oldest first, returned
\* most recent first
C3_Witness ==
    /\ pc = "done"
    /\ Len(clusters) = 2
    /\ clusters[1].bestDisaster.date < clusters[2].bestDisaster.date
    /\ uniqueDisasters = <<clusters[2].bestDisaster, clusters[1].bestDisaster>>

\* the trust rank of the three sources: USGS > NASA EONET > EM-DAT
TrustRank(source) ==
    IF source = "USGS" THEN 3
    ELSE IF source = "NASA EONET" THEN 2
    ELSE IF source = "EM-DAT" THEN 1
    ELSE 0

\* C4: the record that stands for a cluster is one of its records and comes
\* from the highest ranked source in the cluster, whatever the information
\* scores are; a USGS / EM-DAT pair yields the USGS record, an EM-DAT /
\* NASA EONET pair exactly one record, the NASA EONET one
C4_SourceTrustDominates ==
    /\ \A c \in ClustersFormed :
          /\ c.bestDisaster \in Members(c)
          /\ \A m \in Members(c) :
                TrustRank(c.bestDisaster.source) >= TrustRank(m.source)
    /\ pc = "done" =>
          /\ Len(uniqueDisasters) = Len(clusters)
          /\ \A c \in ClustersFormed : c.bestDisaster \in Output
          /\ \A x, y \in 1..Len(allDisasters) :
                ( /\ Len(allDisasters) = 2 /\ x # y
                  /\ areDuplicates(allDisasters[x], allDisasters[y])
                  /\ TrustRank(allDisasters[x].source) > TrustRank(allDisasters[y].source) )
                => uniqueDisasters = <<allDisasters[x]>>

\* a poor USGS record beats a rich EM-DAT record of the same cluster
C4_Witness ==
    /\ pc = "done"
    /\ \E c \in ClustersFormed :
          /\ c.bestDisaster.source = "USGS"
          /\ c.bestDisaster \in Output
          /\ \E m \in Members(c) :
                /\ m.source = "EM-DAT"
                /\ calculateInformationScore(m)
                       > calculateInformationScore(c.bestDisaster)

\* the concatenation of the non-empty lists among the three, in order
RemainingLists ==
    LET keep(l) == IF l = <<>> THEN <<>> ELSE cleanDisasters(l)
    IN  keep(emdatDisasters) \o keep(eonetDisasters) \o keep(usgsDisasters)

\* C8: with three empty lists mergeSources returns an empty list and zero
\* statistics with empty breakdowns, and with some lists empty what it
\* returns is the merge of the lists that are not empty
C8_EmptyInputs ==
    /\ pc = "done" =>
          /\ (emdatDisasters = <<>> /\ eonetDisasters = <<>> /\ usgsDisasters = <<>>)
                => /\ uniqueDisasters = <<>>
                   /\ stats.totalEvents = 0
                   /\ stats.duplicatesRemoved = 0
                   /\ DOMAIN stats.sourceBreakdown = {}
                   /\ DOMAIN stats.typeBreakdown = {}
          /\ [disasters |-> uniqueDisasters, stats |-> stats]
                = mergeDisasters(RemainingLists)

\* the middle list is empty and the two others are merged into one record
C8_Witness ==
    /\ pc = "done"
    /\ eonetDisasters = <<>>
    /\ emdatDisasters # <<>>
    /\ usgsDisasters # <<>>
    /\ Len(uniqueDisasters) = 1
    /\ stats.totalEvents = 2
    /\ stats.duplicatesRemoved = 1

----------------------------------------------------------------------------
(* Properties of the pair functions                                        *)

\* category |-> <<radius in km, window in hours>>
Thresholds ==
    [earthquake |-> <<50, 24>>, volcano |-> <<20, 168>>, wildfire |-> <<100, 72>>,
     hurricane |-> <<200, 48>>, storm |-> <<200, 48>>, flood |-> <<100, 72>>,
     drought |-> <<50, 48>>, heatwave |-> <<50, 48>>, other |-> <<50, 48>>]

GreatCircle(a, b) == calculateDistance(a.latitude, a.longitude, b.latitude, b.longitude)

TimeApart(a, b) == Abs(a.date - b.date)

\* C1: areDuplicates is true exactly when the sources differ, the types are
\* equal, the great-circle distance is at most the category's radius and
\* the time difference at most the category's window, both inclusive; an
\* earthquake pair one hour apart merges at 40 km and not at 60 km, a
\* wildfire pair merges at 72.0 hours and not at 72.1 hours
C1_AreDuplicatesIffFourConditions ==
    ret.op = "areDuplicates" =>
        /\ ret.value <=>
              /\ disaster1.source # disaster2.source
              /\ disaster1.type = disaster2.type
              /\ GreatCircle(disaster1, disaster2) <= Km(Thresholds[disaster1.type][1])
              /\ TimeApart(disaster1, disaster2) <= Hours(Thresholds[disaster1.type][2])
        /\ ( /\ disaster1.source # disaster2.source
             /\ disaster1.type = "earthquake" /\ disaster2.type = "earthquake"
             /\ TimeApart(disaster1, disaster2) = 10 )
           => /\ Abs(disaster1.latitude - disaster2.latitude) = 36 => ret.value
              /\ Abs(disaster1.latitude - disaster2.latitude) = 54 => ~ret.value
        /\ ( /\ disaster1.source # disaster2.source
             /\ disaster1.type = "wildfire" /\ disaster2.type = "wildfire"
             /\ Abs(disaster1.latitude - disaster2.latitude) <= 89 )
           => /\ TimeApart(disaster1, disaster2) = 720 => ret.value
              /\ TimeApart(disaster1, disaster2) = 721 => ~ret.value

\* a wildfire pair of two sources, 99 km and exactly 72 hours apart, is a
\* duplicate pair
C1_Witness ==
    /\ ret.op = "areDuplicates"
    /\ ret.value
    /\ disaster1.type = "wildfire"
    /\ Abs(disaster1.latitude - disaster2.latitude) = 89
    /\ TimeApart(disaster1, disaster2) = 720

\* the information score: the sum of the weights of what a record carries
\* (a blank text and a zero or absent number carry nothing)
Carries(d) ==
    [name |-> d.name \notin {"", " ", "   ", Undefined},
     summary |-> d.summary.trimmed > 0,
     affectedPeople |-> d.affectedPeople > 0,
     magnitude |-> d.magnitude # NaN /\ d.magnitude # 0,
     sourceUrl |-> d.sourceUrl \notin {"", Undefined},
     imageUrl |-> d.imageUrl \notin {"", Undefined},
     donationLinks |-> d.donationLinks # <<>>,
     over50 |-> d.summary.length > 50,
     over100 |-> d.summary.length > 100]

Weights == [name |-> 1, summary |-> 2, affectedPeople |-> 1, magnitude |-> 1,
            sourceUrl |-> 1, imageUrl |-> 1, donationLinks |-> 2, over50 |-> 1,
            over100 |-> 1]

RECURSIVE SumOver(_, _)
SumOver(f, keys) ==
    IF keys = {} THEN 0
    ELSE LET k == CHOOSE x \in keys : TRUE IN f[k] + SumOver(f, keys \ {k})

InformationScore(d) ==
    SumOver([k \in DOMAIN Weights |-> IF Carries(d)[k] THEN Weights[k] ELSE 0],
            DOMAIN Weights)

----------------------------------------------------------------------------
(* Properties of the merge for any input                                   *)

RECURSIVE SumSizes(_, _)
\* the sum over the first n clusters of (cluster size - 1)
SumSizes(cs, n) ==
    IF n = 0 THEN 0 ELSE SumSizes(cs, n - 1) + Len(cs[n].duplicateIndices) - 1

\* C6: every record that passed validation is in the output or counted as a
\* removed duplicate: duplicatesRemoved is the sum over the clusters of
\* (size - 1), and length(disasters) + duplicatesRemoved = totalEvents
C6_NoRecordDisappears ==
    pc = "done" =>
        /\ stats.duplicatesRemoved = SumSizes(clusters, Len(clusters))
        /\ Len(uniqueDisasters) + stats.duplicatesRemoved = stats.totalEvents
        /\ \A k \in 1..Len(allDisasters) :
              \E c \in ClustersFormed :
                  \E m \in DOMAIN c.duplicateIndices : c.duplicateIndices[m] = k

\* the cleaned lists, one after the other
Cleaned == cleanEmdat \o cleanEonet \o cleanUsgs

SourceKey(d) == IF d.source \in {Undefined, ""} THEN "Unknown" ELSE d.source

CountWhere(list, P(_)) == Cardinality({ k \in 1..Len(list) : P(list[k]) })

\* C7: totalEvents is the number of cleaned records, counted before
\* deduplication; each breakdown has one entry per source (a record without
\* a source under "Unknown") or type that occurs, holding the number of
\* cleaned records with it, and the entries of each breakdown sum to
\* totalEvents
C7_StatsCountCleanedInput ==
    pc \in {"loop", "done"} =>
        /\ stats.totalEvents = Len(Cleaned)
        /\ DOMAIN stats.sourceBreakdown = { SourceKey(Cleaned[k]) : k \in 1..Len(Cleaned) }
        /\ \A s \in DOMAIN stats.sourceBreakdown :
              stats.sourceBreakdown[s]
                  = Cardinality({ k \in 1..Len(Cleaned) : SourceKey(Cleaned[k]) = s })
        /\ DOMAIN stats.typeBreakdown = { Cleaned[k].type : k \in 1..Len(Cleaned) }
        /\ \A t \in DOMAIN stats.typeBreakdown :
              stats.typeBreakdown[t]
                  = Cardinality({ k \in 1..Len(Cleaned) : Cleaned[k].type = t })
        /\ SumOver(stats.sourceBreakdown, DOMAIN stats.sourceBreakdown) = stats.totalEvents
        /\ SumOver(stats.typeBreakdown, DOMAIN stats.typeBreakdown) = stats.totalEvents

\* three cleaned records of two types, one of them without a source; one
\* duplicate was removed after the count
C7_Witness ==
    /\ pc = "done"
    /\ stats.totalEvents = 3
    /\ DOMAIN stats.sourceBreakdown = {"Unknown", "EM-DAT"}
    /\ stats.sourceBreakdown["Unknown"] = 1
    /\ stats.sourceBreakdown["EM-DAT"] = 2
    /\ Cardinality(DOMAIN stats.typeBreakdown) = 2
    /\ stats.duplicatesRemoved = 1
    /\ Len(uniqueDisasters) = 2

\* the records of a list the validator accepts, in order
ValidOnly(list) == SelectSeq(list, validateDisaster)

Inputs == emdatDisasters \o eonetDisasters \o usgsDisasters

NotValid(d) == ~validateDisaster(d)

\* C10: a record the validator rejects, in any of the three lists, is not in
\* the output and not counted in totalEvents, the breakdowns or
\* duplicatesRemoved, and removes no valid record: what is returned is the
\* merge of the lists without their invalid records
C10_InvalidRecordsIgnored ==
    /\ pc \in {"loop", "done"} =>
          /\ \A k \in 1..Len(allDisasters) : validateDisaster(allDisasters[k])
          /\ \A r \in Output : validateDisaster(r)
          /\ stats.totalEvents = Len(Inputs) - CountWhere(Inputs, NotValid)
          /\ SumOver(stats.sourceBreakdown, DOMAIN stats.sourceBreakdown)
                = Len(Inputs) - CountWhere(Inputs, NotValid)
          /\ SumOver(stats.typeBreakdown, DOMAIN stats.typeBreakdown)
                = Len(Inputs) - CountWhere(Inputs, NotValid)
          /\ \A c \in ClustersFormed : \A m \in Members(c) : validateDisaster(m)
    /\ pc = "done" =>
          [disasters |-> uniqueDisasters, stats |-> stats]
              = mergeDisasters(ValidOnly(emdatDisasters) \o ValidOnly(eonetDisasters)
                                   \o ValidOnly(usgsDisasters))

\* a nameless USGS record at the place and time of a valid EM-DAT record:
\* the EM-DAT record is returned and nothing is counted as removed
C10_Witness ==
    /\ pc = "done"
    /\ \E k \in 1..Len(Inputs) :
          /\ Inputs[k].name = ""
          /\ Inputs[k].source = "USGS"
          /\ \E r \in Output :
                /\ r.source = "EM-DAT"
                /\ r.type = Inputs[k].type
                /\ r.latitude = Inputs[k].latitude
                /\ r.date = Inputs[k].date
    /\ stats.totalEvents = 1
    /\ stats.duplicatesRemoved = 0

\* C9: a list of records tagged A merged with its copy relabelled B and an
\* empty third list returns as many records as the list has, and removes as
\* many duplicates
C9_SelfMergeKeepsLength ==
    pc = "done" =>
        /\ Len(uniqueDisasters) = Len(emdatDisasters)
        /\ stats.duplicatesRemoved = Len(emdatDisasters)

----------------------------------------------------------------------------
(* Properties of the validator                                             *)

\* the invariants of a record of the data model: a non-empty identifier, a
\* category and a severity of the enumerations, a position in range, a date
\* that is an instant not more than seven days ahead
SatisfiesInvariants(d) ==
    /\ d.id \notin {"", Undefined}
    /\ d.type \in Types
    /\ d.latitude # NaN /\ d.latitude >= -9000 /\ d.latitude <= 9000
    /\ d.longitude # NaN /\ d.longitude >= -18000 /\ d.longitude <= 18000
    /\ d.date # NaN /\ d.date <= now + 7 * 24 * 10
    /\ d.severity \in Severities

\* C11: an accepted record with one invariant-bearing field changed to an
\* out-of-range value is rejected by validateDisaster, and no record that
\* violates an invariant passes cleanDisasters
C11_ValidatorSound ==
    /\ ( /\ ret.op = "validateDisaster"
         /\ ret.original
         /\ disaster2 \in OutOfRange(disaster1) )
       => ~ret.value
    /\ ret.op = "cleanDisasters" =>
          \A k \in 1..Len(ret.value) : SatisfiesInvariants(ret.value[k])

\* C12: validateDisaster accepts every record that satisfies the invariants,
\* whatever its other fields hold
C12_ValidatorComplete ==
    ( /\ ret.op = "validateDisaster"
      /\ SatisfiesInvariants(disaster2) )
    => ret.value

----------------------------------------------------------------------------
(* Frame and order of the merge                                            *)

\* C13: no step of mergeSources changes any of its three input lists: their
\* lengths, their records, the order and every field stay as they were
C13_InputsNotModified ==
    [][ /\ emdatDisasters' = emdatDisasters
        /\ eonetDisasters' = eonetDisasters
        /\ usgsDisasters' = usgsDisasters ]_vars

\* mergeSources has returned; an input list still holds a record the filter
\* dropped and two valid records the sort would have exchanged
C13_Witness ==
    /\ pc = "done"
    /\ Len(emdatDisasters) = 3
    /\ validateDisaster(emdatDisasters[1])
    /\ validateDisaster(emdatDisasters[2])
    /\ ~validateDisaster(emdatDisasters[3])
    /\ emdatDisasters[1].date < emdatDisasters[2].date
    /\ Len(uniqueDisasters) = 2
    /\ uniqueDisasters = <<emdatDisasters[2], emdatDisasters[1]>>

\* the ways to pick n different positions of a list of length m
Selections(n, m) ==
    { f \in [1..n -> 1..m] : \A a, b \in 1..n : a # b => f[a] # f[b] }

\* C14: the records of the output are validated input records, each with all
\* its fields as in the input, and no input record is taken twice: the
\* output is a selection of different positions of the input
C14_OutputSelectsInputs ==
    pc \in {"loop", "done"} =>
        \E f \in Selections(Len(uniqueDisasters), Len(Inputs)) :
            \A k \in 1..Len(uniqueDisasters) :
                /\ uniqueDisasters[k] = Inputs[f[k]]
                /\ validateDisaster(Inputs[f[k]])

\* a cluster of two records whose second record, a richer one of a higher
\* ranked source, stands for it in the output
C14_Witness ==
    /\ pc = "done"
    /\ \E c \in ClustersFormed :
          /\ Len(c.duplicateIndices) = 2
          /\ c.bestDisaster = allDisasters[c.duplicateIndices[2]]
          /\ c.bestDisaster # allDisasters[c.duplicateIndices[1]]
          /\ c.bestDisaster \in Output
          /\ allDisasters[c.duplicateIndices[1]] \notin Output
    /\ CountWhere(Inputs, NotValid) > 0

\* the position of an output record in the concatenated input
PositionOf(r) == CHOOSE p \in 1..Len(allDisasters) : allDisasters[p].id = r.id

\* C15: two output records of equal date are in the order of their positions
\* in the concatenated input
C15_TiesInInputOrder ==
    pc = "done" =>
        \A k, l \in 1..Len(uniqueDisasters) :
            (k < l /\ uniqueDisasters[k].date = uniqueDisasters[l].date)
                => PositionOf(uniqueDisasters[k]) < PositionOf(uniqueDisasters[l])

----------------------------------------------------------------------------
(* Properties of the normalizers                                           *)

NormalizerCalls == {"processEmdatData", "convertEvents", "convertFeatures"}

Emitted == { ret.value[k] : k \in 1..Len(ret.value) }

\* the position a raw record reports, <<NaN, NaN>> when it reports none: the
\* coordinate columns of a row, the coordinates of a feature, the position
\* of the latest Point of an event
RawPosition(r) ==
    CASE ret.op = "processEmdatData" -> <<r.Longitude, r.Latitude>>
      [] ret.op = "convertFeatures" ->
            IF Len(r.coordinates) < 2 THEN <<NaN, NaN>>
            ELSE <<r.coordinates[1], r.coordinates[2]>>
      [] ret.op = "convertEvents" ->
            IF Len(r.geometry) = 0 THEN <<NaN, NaN>>
            ELSE IF r.geometry[Len(r.geometry)].coordinates = <<>> THEN <<NaN, NaN>>
            ELSE r.geometry[Len(r.geometry)].coordinates[1]

InBounds(p) ==
    /\ p[1] # NaN /\ p[1] >= -18000 /\ p[1] <= 18000
    /\ p[2] # NaN /\ p[2] >= -9000 /\ p[2] <= 9000

\* C16: every record a normalizer emits is accepted by validateDisaster; a
\* raw record without coordinates or with coordinates out of range is not
\* emitted, and a row with coordinates in range is not dropped
C16_NormalizersEmitValidRecords ==
    ret.op \in NormalizerCalls =>
        /\ \A e \in Emitted : validateDisaster(e)
        /\ (Len(ret.raw) = 1 /\ ~InBounds(RawPosition(ret.raw[1]))) => ret.value = <<>>
        /\ ( /\ ret.op = "processEmdatData"
             /\ Len(ret.raw) = 1
             /\ InBounds(RawPosition(ret.raw[1])) )
           => Len(ret.value) = 1

\* the identifier the source gives a raw record, and the tag of the source
NativeId(r) == IF ret.op = "processEmdatData" THEN r.DisNo ELSE r.id

SourceTag ==
    CASE ret.op = "processEmdatData" -> "emdat-"
      [] ret.op = "convertEvents" -> "eonet-"
      [] ret.op = "convertFeatures" -> "usgs-"

Normalize(raw) ==
    CASE ret.op = "processEmdatData" -> processEmdatData(raw)
      [] ret.op = "convertEvents" -> convertEvents(raw)
      [] ret.op = "convertFeatures" -> convertFeatures(raw)

Reverse(list) == [k \in 1..Len(list) |-> list[Len(list) + 1 - k]]

IdsOf(list) == { list[k].id : k \in 1..Len(list) }

\* C17: the identifier of an emitted record is the source's tag followed by
\* the native id of a raw record of the payload; the payload in another
\* order yields the same identifiers, and the records emitted for one
\* payload have different identifiers
C17_IdentifierFromNativeId ==
    ret.op \in NormalizerCalls =>
        /\ \A e \in Emitted :
              \E k \in 1..Len(ret.raw) :
                  /\ NativeId(ret.raw[k]) # Undefined
                  /\ e.id = SourceTag \o NativeId(ret.raw[k])
        /\ IdsOf(ret.value) = IdsOf(Normalize(Reverse(ret.raw)))
        /\ Cardinality(IdsOf(ret.value)) = Len(ret.value)

----------------------------------------------------------------------------
(* Properties of the fetchers                                              *)

\* a source has failed: a network error, a status that is not OK, or a body
\* without the record array
Failed(resp) == resp.network \/ ~resp.ok \/ ~resp.readable \/ ~resp.array

\* the list a settled fetch has handed over
ListOf(s) ==
    CASE s = "emdat" -> emdatDisasters
      [] s = "eonet" -> eonetDisasters
      [] s = "usgs" -> usgsDisasters

\* C19: no fetcher's promise is rejected, and the fetcher of a failed source
\* resolves to the empty list
C19_FailedFetchGivesEmptyList ==
    \A s \in SourceTags :
        /\ fetchState[s] # "rejected"
        /\ (fetchState[s] = "fulfilled" /\ Failed(response[s])) => ListOf(s) = <<>>

\* the records of a source that has not failed
Normalized(s) ==
    CASE s = "emdat" -> processEmdatData(response.emdat.records)
      [] s = "eonet" -> convertEvents(response.eonet.records)
      [] s = "usgs" -> convertFeatures(response.usgs.records)

Expected(s) == IF Failed(response[s]) THEN <<>> ELSE Normalized(s)

\* C20: whatever the order in which the three fetches settle and whichever
\* of them fail, each settled source has handed over its own records, the
\* empty list if it failed; the merge runs once all have settled, and what
\* it returns is the merge of those lists
C20_PartialSuccessInAnyOrder ==
    /\ \A s \in SourceTags : fetchState[s] = "fulfilled" => ListOf(s) = Expected(s)
    /\ pc # "fetching" => \A s \in SourceTags : fetchState[s] \in {"fulfilled", "idle"}
    /\ (pc = "done" /\ Len(order) = 3) =>
          [disasters |-> uniqueDisasters, stats |-> stats]
              = mergeDisasters(cleanDisasters(Expected("emdat"))
                                   \o cleanDisasters(Expected("eonet"))
                                   \o cleanDisasters(Expected("usgs")))

----------------------------------------------------------------------------
(* The running best record and the limits of the validator                 *)

\* C21: three records A, B, C in input order, A and B duplicates, B and C
\* duplicates, A and C not, B the better of A and B: the merge returns one
\* record and counts two duplicates removed
C21_ChainMergedIntoOneCluster ==
    (/\ pc = "done"
     /\ Len(allDisasters) = 3
     /\ areDuplicates(allDisasters[1], allDisasters[2])
     /\ areDuplicates(allDisasters[2], allDisasters[3])
     /\ ~areDuplicates(allDisasters[1], allDisasters[3])
     /\ chooseBetterRecord(allDisasters[1], allDisasters[2]) = allDisasters[2])
    => (Len(uniqueDisasters) = 1 /\ stats.duplicatesRemoved = 2)

\* the checks of validateDisaster that are not range checks pass
OtherChecksPass(d) ==
    /\ ~FalsyString(d.id) /\ ~FalsyString(d.name) /\ ~FalsyString(d.type)
    /\ ~isNaN(d.latitude) /\ ~isNaN(d.longitude) /\ ~isNaN(d.date)

WithinLimits(d) ==
    /\ -9000 <= d.latitude /\ d.latitude <= 9000
    /\ -18000 <= d.longitude /\ d.longitude <= 18000
    /\ d.date <= now + Hours(7 * 24)

\* C22: a record is accepted at latitude 90 or -90, longitude 180 or -180 and
\* at a date exactly 7 days after the processing time, and rejected at any
\* value beyond one of these limits
C22_LimitsInclusive ==
    ret.op = "validateDisaster" =>
        /\ OtherChecksPass(disaster1) => (ret.original <=> WithinLimits(disaster1))
        /\ OtherChecksPass(disaster2) => (ret.value <=> WithinLimits(disaster2))

\* a record at latitude -90.01 is rejected; the same record moved to latitude
\* 90, at longitude -180 and dated 7 days ahead, is accepted
C22_Witness ==
    /\ ret.op = "validateDisaster"
    /\ disaster1.latitude = -9001 /\ ~ret.original
    /\ disaster2.latitude = 9000 /\ disaster2.longitude = -18000
    /\ disaster2.date = now + Hours(7 * 24)
    /\ ret.value

----------------------------------------------------------------------------
(* Properties of category inference                                        *)

\* the keyword table of EmdatService.mapDisasterType, in the order of its checks
EmdatKeywordTable ==
    << [keywords |-> {"flood"}, type |-> "flood"],
       [keywords |-> {"wildfire", "forest fire"}, type |-> "wildfire"],
       [keywords |-> {"hurricane", "cyclone", "typhoon"}, type |-> "hurricane"],
       [keywords |-> {"drought"}, type |-> "drought"],
       [keywords |-> {"heat", "temperature"}, type |-> "heatwave"],
       [keywords |-> {"storm", "wind"}, type |-> "storm"],
       [keywords |-> {"earthquake", "seismic"}, type |-> "earthquake"] >>

\* the keyword table of EONETService.mapCategoryToType, in the order of its checks
EonetKeywordTable ==
    << [keywords |-> {"wildfire", "fire"}, type |-> "wildfire"],
       [keywords |-> {"flood"}, type |-> "flood"],
       [keywords |-> {"storm", "cyclone", "hurricane", "typhoon"}, type |-> "hurricane"],
       [keywords |-> {"drought"}, type |-> "drought"],
       [keywords |-> {"heat", "temperature"}, type |-> "heatwave"],
       [keywords |-> {"earthquake", "seismic"}, type |-> "earthquake"],
       [keywords |-> {"volcano"}, type |-> "volcano"],
       [keywords |-> {"snow", "ice"}, type |-> "storm"] >>

RECURSIVE FirstMatch(_, _)
\* the type of the first group of the table with a keyword in the text
FirstMatch(table, text) ==
    IF table = <<>> THEN "other"
    ELSE IF \E k \in Head(table).keywords : includes(text, k) THEN Head(table).type
    ELSE FirstMatch(Tail(table), text)

\* a hurricane word and the word Storm, in either order
HurricaneAndStorm ==
    UNION { {h \o " Storm", "Storm " \o h} : h \in {"Hurricane", "Tropical Cyclone", "Typhoon"} }

\* the text of the event's first category, Undefined without categories
CategoryText ==
    IF TheEvent.categories = <<>> THEN Undefined ELSE TheEvent.categories[1].title

\* C23: both inference functions return a member of the enumeration: the type
\* of the first keyword group, in the order of the function's checks, with a
\* keyword in the lower-cased text, and other when no group has one or the
\* text is missing; a hurricane keyword together with storm gives hurricane
C23_FirstKeywordGroupWins ==
    /\ ret.op = "mapDisasterType" =>
          /\ ret.value \in Types
          /\ ret.value = IF FalsyString(TheRow.DisasterType) THEN "other"
                         ELSE FirstMatch(EmdatKeywordTable,
                                         toLowerCase(TheRow.DisasterType))
          /\ TheRow.DisasterType \in HurricaneAndStorm => ret.value = "hurricane"
    /\ ret.op = "mapCategoryToType" =>
          /\ ret.value \in Types
          /\ ret.value = IF CategoryText = Undefined THEN "other"
                         ELSE FirstMatch(EonetKeywordTable, toLowerCase(CategoryText))
          /\ CategoryText \in HurricaneAndStorm => ret.value = "hurricane"

\* the spreadsheet type "Storm Tropical Cyclone" has been mapped to hurricane
C23_Witness ==
    /\ ret.op = "mapDisasterType"
    /\ TheRow.DisasterType = "Storm Tropical Cyclone"
    /\ ret.value = "hurricane"

\* C30: a type text gets the same category from EmdatService.mapDisasterType
\* as from EONETService.mapCategoryToType
C30_SameCategoryFromBothSources ==
    (/\ ret.op = "mapDisasterType"
     /\ CategoryText = TheRow.DisasterType)
    => ret.value = mapCategoryToType(TheEvent.categories)

----------------------------------------------------------------------------
(* Properties of severity inference                                        *)

\* the order of the four severities
Rank(severity) ==
    CASE severity = "low" -> 1
      [] severity = "moderate" -> 2
      [] severity = "high" -> 3
      [] severity = "critical" -> 4

\* a count of the spreadsheet, a missing one counted as 0
Counted(x) == IF isNaN(x) THEN 0 ELSE x

Counts == {NaN, 0, 1, 999, 1000, 5000, 9999, 10000, 99999, 100000, 999999, 1000000}

\* C24: with w = deaths * 10 + affected, the spreadsheet severity is critical
\* from w = 1,000,000, high from 100,000, moderate from 10,000 and low below,
\* and it does not decrease when deaths or affected grow
C24_SpreadsheetSeverity ==
    ret.op = "EmdatService.calculateSeverity" =>
        LET w == Counted(TheRow.TotalDeaths) * 10 + Counted(TheRow.TotalAffected)
        IN  /\ ret.value = CASE w >= 1000000 -> "critical"
                             [] 100000 <= w /\ w < 1000000 -> "high"
                             [] 10000 <= w /\ w < 100000 -> "moderate"
                             [] OTHER -> "low"
            /\ \A affected \in Counts, deaths \in Counts :
                  (/\ Counted(affected) >= Counted(TheRow.TotalAffected)
                   /\ Counted(deaths) >= Counted(TheRow.TotalDeaths))
                  => Rank(EmdatCalculateSeverity(affected, deaths)) >= Rank(ret.value)

\* 10,000 deaths and no affected count have been rated high
C24_Witness ==
    /\ ret.op = "EmdatService.calculateSeverity"
    /\ TheRow.TotalDeaths = 10000 /\ isNaN(TheRow.TotalAffected)
    /\ ret.value = "high"

\* C25: the seismic severity is critical from magnitude 8.0, high from 6.0,
\* moderate from 5.0 and low below, and it does not decrease when the
\* magnitude grows
C25_SeismicSeverity ==
    (ret.op = "USGSService.calculateSeverity" /\ ~isNaN(TheFeature.properties.mag)) =>
        LET mag == TheFeature.properties.mag
        IN  /\ ret.value = CASE mag >= 80 -> "critical"
                             [] 60 <= mag /\ mag < 80 -> "high"
                             [] 50 <= mag /\ mag < 60 -> "moderate"
                             [] OTHER -> "low"
            /\ \A greater \in Magnitudes \ {NaN} :
                  greater >= mag => Rank(UsgsCalculateSeverity(greater)) >= Rank(ret.value)

\* magnitude 6.0 has been rated high
C25_Witness ==
    /\ ret.op = "USGSService.calculateSeverity"
    /\ TheFeature.properties.mag = 60
    /\ ret.value = "high"

\* the time an event has been active: from its first date to its closing date,
\* to the processing time while it is open
ActiveDuration(event) ==
    LET start == DateValue(event.geometry[1].date)
        end == IF event.closed = Undefined THEN now ELSE DateValue(event.closed)
    IN  IF isNaN(start) \/ isNaN(end) THEN NaN ELSE end - start

\* the event with other dates and another description
SameCategoryEvents(event) ==
    { [event EXCEPT !.geometry[1].date = v[1], !.closed = v[2], !.description = v[3]] :
        v \in StartTexts \X ClosedTexts \X {Undefined, "Reported by the agency."} }

\* C26: an event of the feed categorised as earthquake is rated moderate
\* whatever its dates; for any other category two events of equal active
\* duration get the same severity, and one active longer gets no lower one
C26_FeedSeverity ==
    ret.op = "EONETService.calculateSeverity" =>
        IF mapCategoryToType(TheEvent.categories) = "earthquake"
        THEN ret.value = "moderate"
        ELSE ~isNaN(ActiveDuration(TheEvent)) =>
                \A other \in SameCategoryEvents(TheEvent) :
                    ~isNaN(ActiveDuration(other)) =>
                        /\ ActiveDuration(other) = ActiveDuration(TheEvent)
                              => EonetCalculateSeverity(other) = ret.value
                        /\ ActiveDuration(other) >= ActiveDuration(TheEvent)
                              => Rank(EonetCalculateSeverity(other)) >= Rank(ret.value)

\* an earthquake event first dated the same day has been rated moderate
C26_Witness ==
    /\ ret.op = "EONETService.calculateSeverity"
    /\ mapCategoryToType(TheEvent.categories) = "earthquake"
    /\ ActiveDuration(TheEvent) = 0
    /\ ret.value = "moderate"

----------------------------------------------------------------------------
(* Completeness of the deduplication and independence of the input order   *)

\* C27: no two records of the list mergeSources returns are duplicates of
\* each other under areDuplicates
C27_NoDuplicatesInOutput ==
    pc = "done" =>
        \A a, b \in DOMAIN uniqueDisasters :
            a # b => ~areDuplicates(uniqueDisasters[a], uniqueDisasters[b])

\* C28: every record of a cluster other than the cluster's representative is
\* a duplicate of the representative under areDuplicates
C28_EliminatedIsDuplicateOfRepresentative ==
    \A c \in ClustersFormed :
        \A m \in Members(c) :
            m.id # c.bestDisaster.id => areDuplicates(m, c.bestDisaster)

\* the orders the records of a list can be in
OrdersOf(list) ==
    { [k \in 1..Len(list) |-> list[f[k]]] :
        f \in { g \in [1..Len(list) -> 1..Len(list)] :
                  \A x, y \in 1..Len(list) : g[x] = g[y] => x = y } }

\* C29: with the records of each list in any other order, mergeSources
\* returns the same set of records and the same duplicatesRemoved
C29_OrderInsideListsIrrelevant ==
    pc = "done" =>
        \A e \in OrdersOf(emdatDisasters), o \in OrdersOf(eonetDisasters),
           u \in OrdersOf(usgsDisasters) :
            LET merged == mergeDisasters(flat(cleanDisasters(e), cleanDisasters(o),
                                              cleanDisasters(u)))
            IN  /\ { merged.disasters[k] : k \in DOMAIN merged.disasters } = Output
                /\ merged.stats.duplicatesRemoved = stats.duplicatesRemoved

====
